---- MODULE Spec2Model ----
(***************************************************************************)
(* Conversion pipeline of the File-Format-Converter: the GUI adapter       *)
(* (App), the ConverterService, the three engines (spreadsheet, document,  *)
(* image), the worker pool that runs an engine's BatchConvert, and the     *)
(* temp-file deletion guard.                                               *)
(*                                                                         *)
(* A path is a record [dir, base, ext]; the file system is a function from *)
(* the paths that exist to the content found there.  Error values are      *)
(* abstracted to the place in the code that produced them.                 *)
(***************************************************************************)
EXTENDS Integers, Sequences, FiniteSets, TLC

(***************************************************************************)
(* Bounds                                                                  *)
(***************************************************************************)
MaxBatch == 2

Workers == 2

(***************************************************************************)
(* The files of the modelled workstation                                   *)
(***************************************************************************)
P(d, b, e) == [dir |-> d, base |-> b, ext |-> e]

\* Input paths a caller may hand to the application.
Sources ==
    { P("home", "a", "xlsx"),      \* valid workbook
      P("home", "b", "docx"),      \* valid document
      P("home", "c", "JPG"),       \* valid image, upper-case extension
      P("home", "bad", "docx"),    \* exists, not a DOCX package
      P("home", "gone", "docx"),   \* no such file
      P("home", "notes", "txt"),   \* exists, unsupported extension
      P("home", "lost", "txt"),    \* no such file, unsupported extension
      P("home", "e", "png"),       \* decodes, but its encoding fails
      P("temp", "t", "docx") }     \* valid document staged in the temp dir

\* Content found at a source path before any conversion ran.
InitContent(p) ==
    CASE p.base \in {"a", "b", "c", "t"} -> "ok"
      [] p.base = "bad"                  -> "corrupt"
      [] p.base = "notes"                -> "text"
      [] p.base = "e"                    -> "badenc"
      [] OTHER                           -> "none"

InitFS == [p \in {q \in Sources : InitContent(q) # "none"} |-> InitContent(p)]

Targets == {"pdf", "html", "png", "webp", "jpg"}

Exists(f, p) == p \in DOMAIN f

Content(f, p) == IF p \in DOMAIN f THEN f[p] ELSE "none"

\* os.WriteFile / os.Create + encode: the path now holds content c.
Put(f, p, c) == [q \in (DOMAIN f) \cup {p} |-> IF q = p THEN c ELSE f[q]]

\* os.Remove
Remove(f, p) == [q \in (DOMAIN f) \ {p} |-> f[q]]

\* Content an engine can read and parse / decode.
Readable(c) == c \in {"ok", "badenc", "img"}

(***************************************************************************)
(* Extension handling                                                      *)
(***************************************************************************)
\* strings.ToLower on the extensions and format names that occur.
ToLower(s) ==
    CASE s = "JPG"  -> "jpg"
      [] s = "PDF"  -> "pdf"
      [] s = "HTML" -> "html"
      [] s = "PNG"  -> "png"
      [] s = "WEBP" -> "webp"
      [] OTHER      -> s

detectFileType(p) ==
    LET ext == ToLower(p.ext) IN
    CASE ext = "docx"            -> "DOCX"
      [] ext = "xlsx"            -> "XLSX"
      [] ext \in {"jpeg", "jpg"} -> "JPEG"
      [] ext = "png"             -> "PNG"
      [] ext = "webp"            -> "WEBP"
      [] OTHER                   -> ""

generateOutputPath(inputPath, targetFormat) ==
    LET ext == ToLower(targetFormat) IN
    [dir  |-> inputPath.dir,
     base |-> inputPath.base,
     ext  |-> IF ext = "jpg" THEN "jpeg" ELSE ext]

getFileExtension(p) == ToLower(p.ext)

(***************************************************************************)
(* Engines.  An engine run is a record                                     *)
(*   [st, err, fs, opened, written]                                        *)
(* st the next stage, err the error returned ("" for nil), opened the      *)
(* paths the run has opened for reading, written the paths it has created  *)
(* or written.  Each step is one cancellation checkpoint (where the code   *)
(* has one) followed by the stage up to the next checkpoint.               *)
(***************************************************************************)
EngineReturn(E, e) == [E EXCEPT !.st = "e_done", !.err = e]

EngineOpen(E, p) == [E EXCEPT !.opened = @ \cup {p}]

EngineWrite(E, p, c) ==
    [E EXCEPT !.fs = Put(@, p, c), !.written = @ \cup {p}]

\* ImageEngine.Convert
ImageEngineConvert(E, input, output, ctxDone) ==
    CASE E.st = "e1" ->
           IF ctxDone THEN EngineReturn(E, "cancelled")
           ELSE IF ~Exists(E.fs, input) THEN EngineReturn(E, "open")
           ELSE IF ~Readable(E.fs[input])
                THEN EngineReturn(EngineOpen(E, input), "decode")
           ELSE [EngineOpen(E, input) EXCEPT !.st = "e2"]
      [] E.st = "e2" ->
           IF ctxDone THEN EngineReturn(E, "cancelled")
           ELSE IF getFileExtension(output) \in {"webp", "jpeg", "jpg", "png"}
                THEN \* os.Create / imaging.Save create the file, then encode
                     IF E.fs[input] = "badenc"
                     THEN EngineReturn(EngineWrite(E, output, "partial"), "encode")
                     ELSE EngineReturn(EngineWrite(E, output, "img"), "")
           ELSE \* imaging.Save rejects an extension it has no encoder for
                EngineReturn(E, "unsupported image format")

\* DocumentEngine.Convert.  e.pdfGenerator is non-nil for every engine the
\* App constructs (initializeDocumentEngine).
DocumentEngineConvert(E, input, output, ctxDone) ==
    CASE E.st = "e1" ->
           IF ctxDone THEN EngineReturn(E, "cancelled")
           ELSE IF ~Exists(E.fs, input) THEN EngineReturn(E, "reading docx file")
           ELSE [EngineOpen(E, input) EXCEPT !.st = "e2"]
      [] E.st = "e2" ->
           IF ctxDone THEN EngineReturn(E, "cancelled")
           ELSE IF ~Readable(E.fs[input]) THEN EngineReturn(E, "parsing docx")
           ELSE [E EXCEPT !.st = "e3"]
      [] E.st = "e3" ->
           IF ctxDone THEN EngineReturn(E, "cancelled")
           ELSE \* htmlRenderer.Render, then the output extension decides
                IF getFileExtension(output) \in {"html", "htm"}
                THEN [E EXCEPT !.st = "e_write_html"]
                ELSE IF getFileExtension(output) = "pdf"
                THEN [E EXCEPT !.st = "e_pdf"]
                ELSE EngineReturn(E, "unsupported output format")
      [] E.st = "e_write_html" ->
           EngineReturn(EngineWrite(E, output, "html"), "")
      [] E.st = "e_pdf" ->
           \* HeadlessBrowser.GeneratePDFFromHTMLBytes: ctx is not consulted
           IF E.fs[input] = "badenc" THEN EngineReturn(E, "pdf")
           ELSE [E EXCEPT !.st = "e_write_pdf"]
      [] E.st = "e_write_pdf" ->
           \* HeadlessBrowser.GeneratePDFFromHTML: os.WriteFile
           EngineReturn(EngineWrite(E, output, "pdf"), "")

\* SpreadsheetEngine.Convert: the output extension is never consulted.
SpreadsheetEngineConvert(E, input, output, ctxDone) ==
    CASE E.st = "e1" ->
           IF ctxDone THEN EngineReturn(E, "cancelled")
           ELSE IF ~Exists(E.fs, input) THEN EngineReturn(E, "parsing excel file")
           ELSE IF ~Readable(E.fs[input])
                THEN EngineReturn(EngineOpen(E, input), "parsing excel file")
           ELSE [EngineOpen(E, input) EXCEPT !.st = "e2"]
      [] E.st = "e2" ->
           IF ctxDone THEN EngineReturn(E, "cancelled")
           ELSE [E EXCEPT !.st = "e3"]
      [] E.st = "e3" ->
           \* htmlRenderer.Render, then the checkpoint after rendering
           IF ctxDone THEN EngineReturn(E, "cancelled")
           ELSE [E EXCEPT !.st = "e_pdf"]
      [] E.st = "e_pdf" ->
           \* PDFGenerator.Generate -> GeneratePDFFromHTMLBytes: ctx is not
           \* consulted
           IF E.fs[input] = "badenc" THEN EngineReturn(E, "generating pdf")
           ELSE [E EXCEPT !.st = "e_write_pdf"]
      [] E.st = "e_write_pdf" ->
           \* HeadlessBrowser.GeneratePDFFromHTML: os.WriteFile
           EngineReturn(EngineWrite(E, output, "pdf"), "")

EngineConvert(eng, E, input, output, ctxDone) ==
    CASE eng = "image"       -> ImageEngineConvert(E, input, output, ctxDone)
      [] eng = "document"    -> DocumentEngineConvert(E, input, output, ctxDone)
      [] eng = "spreadsheet" -> SpreadsheetEngineConvert(E, input, output, ctxDone)

\* An engine's Convert run from entry to return under an uncancellable
\* context (context.Background()).
RECURSIVE EngineRun(_, _, _, _)
EngineRun(eng, E, input, output) ==
    IF E.st = "e_done" THEN E
    ELSE EngineRun(eng, EngineConvert(eng, E, input, output, FALSE), input, output)

\* document.ValidateDOCX: the content sanity check of a DOCX package.
ValidateDOCX(f, file) ==
    IF ~Exists(f, file) THEN "file does not exist"
    ELSE IF ~Readable(f[file]) THEN "invalid docx"
    ELSE ""

\* IConverter.Validate of the three engines: [err, opened]
EngineValidate(eng, f, file, ctxDone) ==
    IF ctxDone THEN [err |-> "cancelled", opened |-> {}]
    ELSE CASE eng = "image" ->
                IF ~Exists(f, file) THEN [err |-> "open", opened |-> {}]
                ELSE [err |-> IF Readable(f[file]) THEN "" ELSE "decode",
                      opened |-> {file}]
           [] eng = "spreadsheet" ->
                IF ~Exists(f, file) THEN [err |-> "invalid excel file", opened |-> {}]
                ELSE [err |-> IF Readable(f[file]) THEN "" ELSE "invalid excel file",
                      opened |-> {file}]
           [] eng = "document" ->
                [err |-> ValidateDOCX(f, file),
                 opened |-> IF Exists(f, file) THEN {file} ELSE {}]

(***************************************************************************)
(* ConverterService                                                        *)
(***************************************************************************)
\* The engines map initializeConverterService builds from the App's engine
\* fields (the set of non-nil fields).
ServiceEngines(fields) ==
    [ft \in (IF "spreadsheet" \in fields THEN {"XLSX"} ELSE {})
            \cup (IF "document" \in fields THEN {"DOCX"} ELSE {})
            \cup (IF "image" \in fields THEN {"JPEG", "PNG", "WEBP"} ELSE {})
       |-> CASE ft = "XLSX" -> "spreadsheet"
             [] ft = "DOCX" -> "document"
             [] OTHER       -> "image"]

\* selectEngine: "nil" when no engine is registered for the file type
selectEngine(engs, fileType) ==
    IF fileType \in DOMAIN engs THEN engs[fileType] ELSE "nil"

\* Mutant: the file type is not tested for being known.
validateInput_NoTypeCheck(engs, f, file, ctxDone) ==
    IF ctxDone THEN "cancelled"
    ELSE IF ~Exists(f, file) THEN "file does not exist"
    ELSE IF selectEngine(engs, detectFileType(file)) = "nil"
         THEN "no conversion engine available"
    ELSE ""

\* validateInput: the error of the ValidationResult ("" when Valid).
\* fileWriter.Exists is an os.Stat; the file is not opened.
validateInput(engs, f, file, ctxDone) ==
    IF ctxDone THEN "cancelled"
    ELSE IF ~Exists(f, file) THEN "file does not exist"
    ELSE IF detectFileType(file) = "" THEN "unsupported file type"
    ELSE IF selectEngine(engs, detectFileType(file)) = "nil"
         THEN "no conversion engine available"
    ELSE ""

Ev(e, n) == [ev |-> e, pct |-> n]

NotifyProgress(S, n) == [S EXCEPT !.events = Append(@, Ev("progress", n))]

NotifyError(S) == [S EXCEPT !.events = Append(@, Ev("error", -1))]

NotifyComplete(S) == [S EXCEPT !.events = Append(@, Ev("complete", -1))]

\* Mutant: the early return carries no error.
ConvertFail_NoError(S, e) ==
    [NotifyError(S) EXCEPT !.cv.pc = "ret", !.cv.err = ""]

\* Mutant: the failure path reports 100% before the error.
ConvertFail_After100(S, e) ==
    [NotifyError(NotifyProgress(S, 100)) EXCEPT !.cv.pc = "ret", !.cv.err = e]

\* return Result{Success: false, Error: e}, after NotifyError
ConvertFail(S, e) ==
    [NotifyError(S) EXCEPT !.cv.pc = "ret", !.cv.err = e]

\* The frame of a Convert call that has just been entered.
NewConversion(source, target) ==
    [pc |-> "c_start", src |-> source, out |-> target, eng |-> "nil", err |-> ""]

IdleConversion ==
    [pc |-> "idle", src |-> P("", "", ""), out |-> P("", "", ""),
     eng |-> "nil", err |-> ""]

EngineStages == {"e1", "e2", "e3", "e_pdf", "e_write_html", "e_write_pdf"}

\* One step of ConverterService.Convert: S is the record of everything the
\* call reads and writes, S.cv the frame of the call.
ConvertStep(S, engs, ctxDone) ==
    LET c == S.cv IN
    CASE c.pc = "c_start" ->
           IF ctxDone THEN ConvertFail(S, "cancelled")
           ELSE [NotifyProgress(S, 0) EXCEPT !.cv.pc = "c_validate_input"]
      [] c.pc = "c_validate_input" ->
           LET e == validateInput(engs, S.fs, c.src, ctxDone) IN
           IF e # "" THEN ConvertFail(S, e)
           ELSE [S EXCEPT !.cv.pc = "c_after_validation"]
      [] c.pc = "c_after_validation" ->
           IF ctxDone THEN ConvertFail(S, "cancelled")
           ELSE IF detectFileType(c.src) = ""
                THEN ConvertFail(S, "unsupported file type")
           ELSE IF selectEngine(engs, detectFileType(c.src)) = "nil"
                THEN ConvertFail(S, "no conversion engine available")
           ELSE [S EXCEPT !.cv.pc = "c_engine_validate",
                          !.cv.eng = selectEngine(engs, detectFileType(c.src))]
      [] c.pc = "c_engine_validate" ->
           LET v == EngineValidate(c.eng, S.fs, c.src, ctxDone)
               T == [S EXCEPT !.calls = @ \cup {"Validate"},
                              !.opened = @ \cup v.opened]
           IN  IF v.err # "" THEN ConvertFail(T, v.err)
               ELSE [T EXCEPT !.cv.pc = "c_before_conversion"]
      [] c.pc = "c_before_conversion" ->
           IF ctxDone THEN ConvertFail(S, "cancelled")
           ELSE [NotifyProgress(S, 50) EXCEPT !.cv.pc = "e1",
                                              !.calls = @ \cup {"Convert"}]
      [] c.pc \in EngineStages ->
           LET E == EngineConvert(c.eng,
                                  [st |-> c.pc, err |-> "", fs |-> S.fs,
                                   opened |-> S.opened, written |-> S.written],
                                  c.src, c.out, ctxDone)
               T == [S EXCEPT !.fs = E.fs, !.opened = E.opened,
                              !.written = E.written]
           IN  IF E.st # "e_done" THEN [T EXCEPT !.cv.pc = E.st]
               ELSE IF E.err # "" THEN ConvertFail(T, E.err)
               ELSE [NotifyComplete(NotifyProgress(T, 100)) EXCEPT !.cv.pc = "ret"]

\* Convert run from entry to return with the context in a fixed state.
RECURSIVE ConvertRun(_, _, _)
ConvertRun(S, engs, ctxDone) ==
    IF S.cv.pc = "ret" THEN S ELSE ConvertRun(ConvertStep(S, engs, ctxDone), engs, ctxDone)

\* domain.Result of a returned Convert
ResultOf(c) ==
    [Success |-> c.err = "",
     OutputPath |-> IF c.err = "" THEN c.out ELSE P("", "", ""),
     Error |-> c.err]

(***************************************************************************)
(* State                                                                   *)
(***************************************************************************)
VARIABLES
    appEngines,  \* the App's non-nil engine fields
    cancelled,   \* ctx.Err() != nil for the context the App hands down
    app,         \* the GUI operation in progress and its results
    batch,       \* frame of ConverterService.BatchConvert
    cv,          \* frame of ConverterService.Convert
    pool,        \* an engine's BatchConvert on its WorkerPool
    fs,          \* the file system
    events,      \* what the progress notifier has received
    opened,      \* paths opened for reading by the current Convert
    written,     \* paths created or written by the current Convert
    calls,       \* engine methods invoked by the current Convert
    hist,        \* history: where cancellation struck, the items started,
                 \* the conversions that returned, what each task produced
    del,         \* a DeleteTempFile call: its argument, outcome, and the disk
    wp,          \* a WorkerPool on its own: channel, workers, Close
    br,          \* a headless browser and the component holding its handle
    xl,          \* a worksheet being parsed and rendered
    dx,          \* a document.xml being parsed
    life,        \* the engines and worker pools of a process, start to end
    launch,      \* callers that need the headless browser at the same time
    tmp,         \* temp-directory outputs and their delayed cleanups
    bc           \* BatchConvert calls that share one engine's WorkerPool

vars == <<appEngines, cancelled, app, batch, cv, pool, fs, events,
          opened, written, calls, hist, del, wp, br, xl, dx, life, launch, tmp, bc>>

\* The state of the conversion pipeline
mainVars == <<appEngines, cancelled, app, batch, cv, pool, fs, events,
              opened, written, calls, hist>>

\* The state of the components that are modelled on their own
aside == <<del, wp, br, xl, dx, life, launch, tmp, bc>>

\* What a component modelled on its own leaves alone
exceptDel == <<mainVars, wp, br, xl, dx, life, launch, tmp, bc>>

exceptPool == <<mainVars, del, br, xl, dx, life, launch, tmp, bc>>

exceptBrowser == <<mainVars, del, wp, xl, dx, life, launch, tmp, bc>>

exceptSheet == <<mainVars, del, wp, br, dx, life, launch, tmp, bc>>

exceptDocx == <<mainVars, del, wp, br, xl, life, launch, tmp, bc>>

exceptLife == <<mainVars, del, wp, br, xl, dx, launch, tmp, bc>>

exceptLaunch == <<mainVars, del, wp, br, xl, dx, life, tmp, bc>>

exceptTmp == <<mainVars, del, wp, br, xl, dx, life, launch, bc>>

exceptBatches == <<mainVars, del, wp, br, xl, dx, life, launch, tmp>>

\* App.OnStartup: the engine fields it leaves non-nil.  initializeEngines
\* runs only when NewHeadlessBrowser succeeded, and sets the spreadsheet and
\* the document engine; nothing on this path sets the image engine.
OnStartup(browserFound) ==
    IF browserFound THEN {"spreadsheet", "document"} ELSE {}

\* Engine fields after OnStartup (no browser found: none; browser found:
\* spreadsheet and document), and with the image engine initialised as well.
EngineConfigs ==
    { OnStartup(FALSE), OnStartup(TRUE), OnStartup(TRUE) \cup {"image"} }

Engs == ServiceEngines(appEngines)

NoPath == P("", "", "")

IdleApp == [op |-> "none", pc |-> "idle", files |-> <<>>, target |-> "",
            out |-> NoPath, results |-> <<>>, formats |-> <<>>]

IdleBatch == [pc |-> "idle", i |-> 0, results |-> <<>>]

IdlePool == [eng |-> "nil", tasks |-> <<>>, queue |-> <<>>,
             running |-> [w \in 1..Workers |-> 0],
             next |-> 0, wg |-> 0, results |-> <<>>]

NoDelete == [pc |-> "idle", path |-> <<>>, err |-> "", disk |-> {}]

\* No WorkerPool under observation
NoWorkerPool == [pc |-> "none"]

\* No browser, worksheet or document under observation
NoBrowser == [pc |-> "none"]

NoSheet == [pc |-> "none"]

NoDocx == [pc |-> "none"]

NoLife == [pc |-> "none"]

NoLaunch == [pc |-> "none"]

NoTmp == [pc |-> "none"]

NoBatches == [pc |-> "none"]

\* The conversion pipeline at rest, no engine initialised
MainIdle ==
    /\ appEngines = {}
    /\ cancelled = FALSE
    /\ app = IdleApp
    /\ batch = IdleBatch
    /\ cv = IdleConversion
    /\ pool = IdlePool
    /\ fs = InitFS
    /\ events = <<>>
    /\ opened = {}
    /\ written = {}
    /\ calls = {}
    /\ hist = [cancelPc |-> "never", evStart |-> 0, started |-> {},
               done |-> <<>>, outcome |-> <<>>, notified |-> <<>>]

Init ==
    /\ del = NoDelete
    /\ wp = NoWorkerPool
    /\ br = NoBrowser
    /\ xl = NoSheet
    /\ dx = NoDocx
    /\ appEngines \in EngineConfigs
    /\ cancelled = FALSE
    /\ app = IdleApp
    /\ batch = IdleBatch
    /\ cv = IdleConversion
    /\ pool = IdlePool
    /\ fs = InitFS
    /\ events = <<>>
    /\ opened = {}
    /\ written = {}
    /\ calls = {}
    /\ hist = [cancelPc |-> "never", evStart |-> 0, started |-> {},
               done |-> <<>>, outcome |-> <<>>, notified |-> <<>>]
    /\ life = NoLife
    /\ launch = NoLaunch
    /\ tmp = NoTmp
    /\ bc = NoBatches

Cur == [cv |-> cv, fs |-> fs, events |-> events, opened |-> opened,
        written |-> written, calls |-> calls]

Apply(T) ==
    /\ cv' = T.cv
    /\ fs' = T.fs
    /\ events' = T.events
    /\ opened' = T.opened
    /\ written' = T.written
    /\ calls' = T.calls

\* Entering ConverterService.Convert(ctx, source, target)
EnterConvert(source, target) ==
    /\ cv' = NewConversion(source, target)
    /\ opened' = {}
    /\ written' = {}
    /\ calls' = {}

(***************************************************************************)
(* The context is cancelled (at most once, at any moment).                 *)
(***************************************************************************)
Cancel ==
    /\ ~cancelled
    /\ app.pc # "done"
    /\ cancelled' = TRUE
    /\ hist' = [hist EXCEPT !.cancelPc = cv.pc]
    /\ UNCHANGED <<aside, appEngines, app, batch, cv, pool, fs, events, opened,
                   written, calls>>

(***************************************************************************)
(* ConverterService.Convert, one action per checkpoint and stage           *)
(***************************************************************************)
ServiceStep(pcs) ==
    /\ cv.pc \in pcs
    /\ Apply(ConvertStep(Cur, Engs, cancelled))
    /\ hist' = IF ConvertStep(Cur, Engs, cancelled).cv.pc = "ret"
               THEN [hist EXCEPT !.done = Append(@,
                        [src |-> cv.src,
                         res |-> ResultOf(ConvertStep(Cur, Engs, cancelled).cv)])]
               ELSE hist
    /\ UNCHANGED <<aside, appEngines, cancelled, app, batch, pool>>

ConvertStart == ServiceStep({"c_start"})

ConvertValidateInput == ServiceStep({"c_validate_input"})

ConvertAfterValidation == ServiceStep({"c_after_validation"})

ConvertEngineValidate == ServiceStep({"c_engine_validate"})

ConvertBeforeConversion == ServiceStep({"c_before_conversion"})

ConvertEngineStage == ServiceStep(EngineStages)

(***************************************************************************)
(* ConverterService.BatchConvert (sequential)                              *)
(***************************************************************************)
ZeroResult == [Success |-> FALSE, OutputPath |-> NoPath, Error |-> ""]

\* Mutant: the whole slice is returned on cancellation.
BatchPartial_Whole(results, i) == results

\* return results[:i]
BatchPartial(results, i) == SubSeq(results, 1, i)

\* Mutant: the loop returns what it has as soon as an item fails.
BatchAfterItem_Abort(b, result) ==
    IF result.Success
    THEN [b EXCEPT !.results[b.i + 1] = result, !.i = b.i + 1, !.pc = "b_loop"]
    ELSE [b EXCEPT !.results = Append(SubSeq(@, 1, b.i), result),
                   !.i = b.i + 1, !.pc = "ret"]

\* results[i] = result; i++ (i counts from 0 as in the code)
BatchAfterItem(b, result) ==
    [b EXCEPT !.results[b.i + 1] = result, !.i = b.i + 1, !.pc = "b_loop"]

BatchStart ==
    /\ batch.pc = "b_start"
    /\ IF Len(app.files) = 0 \/ cancelled
       THEN /\ batch' = [batch EXCEPT !.pc = "ret", !.results = <<>>]
            /\ UNCHANGED events
       ELSE /\ batch' = [pc |-> "b_loop", i |-> 0,
                         results |-> [k \in 1..Len(app.files) |-> ZeroResult]]
            /\ events' = Append(events, Ev("progress", 0))
    /\ UNCHANGED <<aside, appEngines, cancelled, app, cv, pool, fs, opened,
                   written, calls, hist>>

BatchNext ==
    /\ batch.pc = "b_loop"
    /\ IF batch.i = Len(app.files)
       THEN /\ batch' = [batch EXCEPT !.pc = "ret"]
            /\ UNCHANGED <<cv, opened, written, calls, hist>>
       ELSE IF cancelled
       THEN /\ batch' = [batch EXCEPT !.pc = "ret",
                                      !.results = BatchPartial(@, batch.i)]
            /\ UNCHANGED <<cv, opened, written, calls, hist>>
       ELSE /\ batch' = [batch EXCEPT !.pc = "b_item"]
            /\ EnterConvert(app.files[batch.i + 1],
                            generateOutputPath(app.files[batch.i + 1], app.target))
            /\ hist' = [hist EXCEPT !.started = @ \cup {batch.i},
                                    !.evStart = Len(events)]
    /\ UNCHANGED <<aside, appEngines, cancelled, app, pool, fs, events>>

BatchItemDone ==
    /\ batch.pc = "b_item"
    /\ cv.pc = "ret"
    /\ batch' = BatchAfterItem(batch, ResultOf(cv))
    /\ events' = Append(events,
                        Ev("progress", ((batch.i + 1) * 100) \div Len(app.files)))
    \* the message of the notification: "Converted i+1 of totalFiles files"
    /\ hist' = [hist EXCEPT !.notified =
                    Append(@, [completed |-> batch.i + 1,
                               total |-> Len(app.files)])]
    /\ UNCHANGED <<aside, appEngines, cancelled, app, cv, pool, fs, opened,
                   written, calls>>

(***************************************************************************)
(* An engine's BatchConvert on its WorkerPool                              *)
(***************************************************************************)
ZeroBatchResult == [Index |-> 0, Error |-> ""]

QueueCap == 2 * Workers

\* Mutant: the slot is computed from the far end of the slice.
StoreResult_WrongSlot(results, task, err) ==
    [results EXCEPT ![Len(results) - task.Index] =
                        [Index |-> task.Index, Error |-> err]]

\* results[task.Index] = BatchConversionResult{Index: task.Index, Error: err}
StoreResult(results, task, err) ==
    [results EXCEPT ![task.Index + 1] = [Index |-> task.Index, Error |-> err]]

\* wg.Add(1); e.workerPool.Submit(func() {...}) : blocks while the channel
\* holds 2*workers tasks
Submit ==
    /\ app.pc = "par"
    /\ pool.next <= Len(pool.tasks)
    /\ Len(pool.queue) < QueueCap
    /\ pool' = [pool EXCEPT !.wg = @ + 1,
                            !.queue = Append(@, pool.next),
                            !.next = @ + 1]
    /\ UNCHANGED <<aside, appEngines, cancelled, app, batch, cv, fs, events,
                   opened, written, calls, hist>>

\* Mutant: the task received stays in the channel.
WorkerTake_Peek(w) ==
    /\ pool.running[w] = 0
    /\ pool.queue # <<>>
    /\ pool' = [pool EXCEPT !.running[w] = Head(pool.queue)]
    /\ UNCHANGED <<aside, appEngines, cancelled, app, batch, cv, fs, events,
                   opened, written, calls, hist>>

\* for task := range p.tasks
WorkerTake(w) ==
    /\ pool.running[w] = 0
    /\ pool.queue # <<>>
    /\ pool' = [pool EXCEPT !.running[w] = Head(pool.queue),
                            !.queue = Tail(@)]
    /\ UNCHANGED <<aside, appEngines, cancelled, app, batch, cv, fs, events,
                   opened, written, calls, hist>>

\* task(): Convert under context.Background(), store the result, wg.Done()
WorkerRun(w) ==
    /\ pool.running[w] # 0
    /\ LET task == pool.tasks[pool.running[w]]
           E == EngineRun(pool.eng,
                          [st |-> "e1", err |-> "", fs |-> fs,
                           opened |-> {}, written |-> {}],
                          task.InputPath, task.OutputPath)
       IN  /\ fs' = E.fs
           /\ pool' = [pool EXCEPT !.results = StoreResult(@, task, E.err),
                                   !.running[w] = 0,
                                   !.wg = @ - 1]
           /\ hist' = [hist EXCEPT !.started = @ \cup {task.Index},
                                   !.outcome = Append(@, [Index |-> task.Index,
                                                          Error |-> E.err])]
    /\ UNCHANGED <<aside, appEngines, cancelled, app, batch, cv, events,
                   opened, written, calls>>

(***************************************************************************)
(* App (GUI adapter)                                                       *)
(***************************************************************************)
\* strings.HasPrefix(filepath.Clean(path), <OS temp>/file-format-converter)
\* for the paths of the modelled workstation
InTempDir(p) == p.dir = "temp"

\* The output path ConvertFileWithPath derives when none is given: next to
\* the source, or in the Downloads folder when the source is staged in temp.
ConvertFileOutputPath(sourcePath, targetFormat) ==
    IF InTempDir(sourcePath)
    THEN [generateOutputPath(sourcePath, targetFormat) EXCEPT !.dir = "downloads"]
    ELSE generateOutputPath(sourcePath, targetFormat)

\* The ConversionResult ConvertFileWithPath builds from a domain.Result
ConversionResultOf(result) ==
    IF result.Success
    THEN [Success |-> TRUE, OutputPath |-> result.OutputPath, Error |-> ""]
    ELSE [Success |-> FALSE, OutputPath |-> NoPath,
          Error |-> IF result.Error # "" THEN result.Error ELSE "Conversion failed"]

\* The ConversionResult batchConvert...Parallel builds from a task's result
ParallelResultOf(task, batchResult) ==
    IF batchResult.Error # ""
    THEN [Success |-> FALSE, OutputPath |-> NoPath, Error |-> batchResult.Error]
    ELSE [Success |-> TRUE, OutputPath |-> task.OutputPath, Error |-> ""]

\* BatchConvertFiles: the engine whose worker pool takes the batch, "nil"
\* when the batch goes to ConverterService.BatchConvert.
ParallelEngine(files, fields) ==
    LET firstType == detectFileType(files[1])
        allSameType == \A i \in 2..Len(files) : detectFileType(files[i]) = firstType
        want == CASE firstType \in {"JPEG", "PNG", "WEBP"} -> "image"
                  [] firstType = "DOCX"                    -> "document"
                  [] firstType = "XLSX"                    -> "spreadsheet"
                  [] OTHER                                 -> "nil"
    IN  IF allSameType /\ want \in fields THEN want ELSE "nil"

\* ConvertFile(sourcePath, targetFormat) up to the call of service.Convert
ConvertFileCall(source, target) ==
    /\ app' = [app EXCEPT !.op = "convert", !.pc = "converting",
                          !.files = <<source>>, !.target = target,
                          !.out = ConvertFileOutputPath(source, target)]
    /\ EnterConvert(source, ConvertFileOutputPath(source, target))
    /\ hist' = [hist EXCEPT !.evStart = Len(events)]
    /\ UNCHANGED <<aside, appEngines, cancelled, batch, pool, fs, events>>

\* ConvertFileWithPath after service.Convert returned: on failure the
\* output path is removed.
ConvertFileFinish ==
    /\ app.pc = "converting"
    /\ cv.pc = "ret"
    /\ app' = [app EXCEPT !.pc = "done",
                          !.results = <<ConversionResultOf(ResultOf(cv))>>]
    /\ fs' = IF ResultOf(cv).Success THEN fs ELSE Remove(fs, app.out)
    /\ UNCHANGED <<aside, appEngines, cancelled, batch, cv, pool, events, opened,
                   written, calls, hist>>

\* BatchConvertFiles(files, targetFormat) up to the hand-off
BatchConvertFilesCall(files, target) ==
    /\ IF Len(files) = 0
       THEN /\ app' = [app EXCEPT !.op = "batch", !.pc = "done",
                                  !.files = files, !.target = target]
            /\ UNCHANGED <<batch, pool>>
       ELSE IF ParallelEngine(files, appEngines) # "nil"
       THEN /\ app' = [app EXCEPT !.op = "batch", !.pc = "par",
                                  !.files = files, !.target = target]
            /\ pool' = [eng |-> ParallelEngine(files, appEngines),
                        tasks |-> [i \in 1..Len(files) |->
                                     [InputPath |-> files[i],
                                      OutputPath |-> generateOutputPath(files[i], target),
                                      Index |-> i - 1]],
                        queue |-> <<>>,
                        running |-> [w \in 1..Workers |-> 0],
                        next |-> 1, wg |-> 0,
                        results |-> [i \in 1..Len(files) |-> ZeroBatchResult]]
            /\ UNCHANGED batch
       ELSE /\ app' = [app EXCEPT !.op = "batch", !.pc = "seq",
                                  !.files = files, !.target = target]
            /\ batch' = [IdleBatch EXCEPT !.pc = "b_start"]
            /\ UNCHANGED pool
    /\ UNCHANGED <<aside, appEngines, cancelled, cv, fs, events, opened, written,
                   calls, hist>>

\* wg.Wait() returns; the batch results become ConversionResults
BatchParallelFinish ==
    /\ app.pc = "par"
    /\ pool.next > Len(pool.tasks)
    /\ pool.wg = 0
    /\ app' = [app EXCEPT !.pc = "done",
                          !.results = [i \in 1..Len(pool.results) |->
                                         ParallelResultOf(pool.tasks[i], pool.results[i])]]
    /\ UNCHANGED <<aside, appEngines, cancelled, batch, cv, pool, fs, events,
                   opened, written, calls, hist>>

\* converterService.BatchConvert returned
BatchSequentialFinish ==
    /\ app.pc = "seq"
    /\ batch.pc = "ret"
    /\ app' = [app EXCEPT !.pc = "done",
                          !.results = [i \in 1..Len(batch.results) |->
                                         ConversionResultOf(batch.results[i])]]
    /\ UNCHANGED <<aside, appEngines, cancelled, batch, cv, pool, fs, events,
                   opened, written, calls, hist>>

\* ConvertFile(source, target) run from entry to return, uncancelled, on
\* file system f0: the ConversionResult and the file system it leaves.
ConvertFileRun(source, target, f0, engs) ==
    LET out == ConvertFileOutputPath(source, target)
        S == ConvertRun([cv |-> NewConversion(source, out), fs |-> f0,
                         events |-> <<>>, opened |-> {}, written |-> {},
                         calls |-> {}], engs, FALSE)
        r == ResultOf(S.cv)
    IN  [result |-> ConversionResultOf(r),
         fs |-> IF r.Success THEN S.fs ELSE Remove(S.fs, out)]

\* ConverterService.GetSupportedFormats: the Format constants it lists
GetSupportedFormats(engs) ==
    IF DOMAIN engs = {} THEN <<>> ELSE <<"PDF", "HTML", "PNG", "WEBP">>

\* App.GetSupportedFormats: the service's formats, lower-cased (the service
\* is non-nil once OnStartup has run)
AppGetSupportedFormats(engs) ==
    [i \in 1..Len(GetSupportedFormats(engs)) |-> ToLower(GetSupportedFormats(engs)[i])]

GetFormats ==
    /\ app.pc = "idle"
    /\ app' = [app EXCEPT !.op = "formats", !.pc = "done",
                          !.formats = AppGetSupportedFormats(Engs)]
    /\ UNCHANGED <<aside, appEngines, cancelled, batch, cv, pool, fs, events,
                   opened, written, calls, hist>>

\* The file lists the frontend passes: up to MaxBatch files
FileLists == UNION {[1..k -> Sources] : k \in 0..MaxBatch}

ConvertFile ==
    /\ app.pc = "idle"
    /\ \E source \in Sources, target \in Targets : ConvertFileCall(source, target)

BatchConvertFiles ==
    /\ app.pc = "idle"
    /\ \E files \in FileLists, target \in Targets :
          BatchConvertFilesCall(files, target)

Next ==
    \/ ConvertFile
    \/ BatchConvertFiles
    \/ GetFormats
    \/ Cancel
    \/ ConvertStart
    \/ ConvertValidateInput
    \/ ConvertAfterValidation
    \/ ConvertEngineValidate
    \/ ConvertBeforeConversion
    \/ ConvertEngineStage
    \/ ConvertFileFinish
    \/ BatchStart
    \/ BatchNext
    \/ BatchItemDone
    \/ BatchSequentialFinish
    \/ Submit
    \/ \E w \in 1..Workers : WorkerTake(w)
    \/ \E w \in 1..Workers : WorkerRun(w)
    \/ BatchParallelFinish

Spec == Init /\ [][Next]_vars

(***************************************************************************)
(* DeleteTempFile.  A path string is a sequence of characters; "t" stands  *)
(* for the name of the OS temp directory and "f" for                       *)
(* "file-format-converter", so that "ff" is a sibling whose name begins    *)
(* with the temp directory's name.  A location on the disk is the list of  *)
(* names leading to it from the root.                                      *)
(***************************************************************************)
MaxPathLen == 9

PathChars == {"/", ".", "t", "f"}

\* filepath.Join(os.TempDir(), "file-format-converter")
TempDir == <<"/", "t", "/", "f">>

DiskDirs ==
    { <<>>, << <<"t">> >>, << <<"t">>, <<"f">> >>, << <<"t">>, <<"f", "f">> >> }

DiskFiles ==
    { << <<"t">>, <<"f">>, <<"t">> >>,        \* /t/f/t   inside the temp dir
      << <<"t">>, <<"f", "f">>, <<"t">> >>,   \* /t/ff/t  in the sibling
      << <<"t">>, <<"t">> >>,                 \* /t/t     next to the temp dir
      << <<"f">> >> }                         \* /f       in the root

NoEntry == << <<"?">> >>

\* strings.HasPrefix
HasPrefix(str, prefix) ==
    Len(str) >= Len(prefix) /\ SubSeq(str, 1, Len(prefix)) = prefix

\* The "/"-separated elements of a path string
RECURSIVE SplitFrom(_, _, _)
SplitFrom(str, i, cur) ==
    IF i > Len(str) THEN <<cur>>
    ELSE IF str[i] = "/" THEN <<cur>> \o SplitFrom(str, i + 1, <<>>)
    ELSE SplitFrom(str, i + 1, Append(cur, str[i]))

DotDot == <<".", ".">>

\* filepath.Clean: the elements left once "", "." and ".." are resolved
RECURSIVE CleanStack(_, _, _)
CleanStack(elems, stack, rooted) ==
    IF elems = <<>> THEN stack
    ELSE LET e == Head(elems) IN
         IF e = <<>> \/ e = <<".">>
         THEN CleanStack(Tail(elems), stack, rooted)
         ELSE IF e = DotDot
         THEN IF stack # <<>> /\ stack[Len(stack)] # DotDot
              THEN CleanStack(Tail(elems), SubSeq(stack, 1, Len(stack) - 1), rooted)
              ELSE IF rooted THEN CleanStack(Tail(elems), stack, rooted)
              ELSE CleanStack(Tail(elems), Append(stack, e), rooted)
         ELSE CleanStack(Tail(elems), Append(stack, e), rooted)

RECURSIVE JoinElems(_)
JoinElems(elems) ==
    IF elems = <<>> THEN <<>>
    ELSE IF Len(elems) = 1 THEN elems[1]
    ELSE elems[1] \o <<"/">> \o JoinElems(Tail(elems))

\* filepath.Clean
Clean(str) ==
    LET rooted == str # <<>> /\ str[1] = "/"
        stack == CleanStack(SplitFrom(str, 1, <<>>), <<>>, rooted)
    IN  IF rooted THEN <<"/">> \o JoinElems(stack)
        ELSE IF stack = <<>> THEN <<".">>
        ELSE JoinElems(stack)

\* The operating system's resolution of a path, element by element from
\* the location at (the working directory is the root): the location it
\* names, NoEntry when an element on the way is not a directory.
RECURSIVE Walk(_, _)
Walk(elems, at) ==
    IF elems = <<>> THEN at
    ELSE LET e == Head(elems) IN
         IF at \notin DiskDirs THEN NoEntry
         ELSE IF e = <<>> \/ e = <<".">> THEN Walk(Tail(elems), at)
         ELSE IF e = DotDot
              THEN Walk(Tail(elems),
                        IF at = <<>> THEN at ELSE SubSeq(at, 1, Len(at) - 1))
         ELSE Walk(Tail(elems), Append(at, e))

Locate(str) == Walk(SplitFrom(str, 1, <<>>), <<>>)

\* os.Remove: [err, disk]
OsRemove(str, disk) ==
    IF Locate(str) \in disk
    THEN [err |-> "", disk |-> disk \ {Locate(str)}]
    ELSE [err |-> "remove", disk |-> disk]

\* App.DeleteTempFile, with filepath.Clean on both sides of the comparison
DeleteTempFile(filePath, disk) ==
    IF ~HasPrefix(Clean(filePath), Clean(TempDir))
    THEN [err |-> "file is not in temp directory, refusing to delete", disk |-> disk]
    ELSE OsRemove(filePath, disk)

\* App.DeleteTempFile as it stands in the other copy of the adapter, which
\* compares the path as given
DeleteTempFileRaw(filePath, disk) ==
    IF ~HasPrefix(filePath, TempDir)
    THEN [err |-> "file is not in temp directory, refusing to delete", disk |-> disk]
    ELSE OsRemove(filePath, disk)

DeleteCall ==
    /\ del.pc = "ready"
    /\ del' = [del EXCEPT !.pc = "done",
                          !.err = DeleteTempFile(del.path, del.disk).err,
                          !.disk = DeleteTempFile(del.path, del.disk).disk]
    /\ UNCHANGED exceptDel

DeleteCallRaw ==
    /\ del.pc = "ready"
    /\ del' = [del EXCEPT !.pc = "done",
                          !.err = DeleteTempFileRaw(del.path, del.disk).err,
                          !.disk = DeleteTempFileRaw(del.path, del.disk).disk]
    /\ UNCHANGED exceptDel

InitDelete ==
    /\ \E n \in 1..MaxPathLen : \E filePath \in [1..n -> PathChars] :
          del = [pc |-> "ready", path |-> filePath, err |-> "", disk |-> DiskFiles]
    /\ wp = NoWorkerPool
    /\ br = NoBrowser
    /\ xl = NoSheet
    /\ dx = NoDocx
    /\ life = NoLife
    /\ launch = NoLaunch
    /\ tmp = NoTmp
    /\ bc = NoBatches
    /\ MainIdle

NextDelete == DeleteCall \/ DeleteCallRaw

SpecDelete == InitDelete /\ [][NextDelete]_vars

(***************************************************************************)
(* WorkerPool on its own: NewWorkerPool, Submit, worker, Close.  A client  *)
(* submits the tasks 1, 2, ... in order; Close is called at most once.     *)
(***************************************************************************)
MaxTasks == 5

\* NewWorkerPool: the channel is empty and every worker is in its loop
NewWorkerPool ==
    [pc |-> "open",            \* Close: not called / in wg.Wait / returned
     queue |-> <<>>,           \* p.tasks
     running |-> [w \in 1..Workers |-> 0],
     exited |-> {},            \* workers that left their loop (wg.Done)
     submitted |-> {},         \* tasks whose Submit returned
     done |-> {},              \* tasks that ran to completion
     atClose |-> {},           \* tasks submitted when Close was called
     queuedAtClose |-> 0,      \* tasks in the channel when Close was called
     late |-> {},              \* tasks handed to Submit after close(p.tasks)
     panic |-> ""]

\* p.tasks <- task on a channel that is not closed and has room
WorkerPoolSubmit(p, task) ==
    [p EXCEPT !.queue = Append(@, task), !.submitted = @ \cup {task}]

\* p.tasks <- task on a closed channel: the send panics
WorkerPoolSubmitClosed(p, task) ==
    [p EXCEPT !.late = @ \cup {task}, !.panic = "send on closed channel"]

\* close(p.tasks); Close then waits in p.wg.Wait()
WorkerPoolClose(p) ==
    [p EXCEPT !.pc = "closing", !.atClose = p.submitted,
              !.queuedAtClose = Len(p.queue)]

\* Mutant: the range loop ends as soon as the channel is closed.
WorkerLeaves_OnClose(p, w) ==
    /\ p.pc # "open"
    /\ p.running[w] = 0

\* for task := range p.tasks ends: the channel is closed and drained
WorkerLeaves(p, w) ==
    /\ p.pc # "open"
    /\ p.queue = <<>>
    /\ p.running[w] = 0

\* Mutant: the channel has one slot per worker.
ChanHasRoom_PerWorker(p) == Len(p.queue) < Workers

\* make(chan func(), workers*2): a send completes while the buffer has room
ChanHasRoom(p) == Len(p.queue) < QueueCap

\* Submit: p.tasks <- task; the send waits while the open channel is full
PoolSubmit ==
    /\ wp.pc # "none"
    /\ wp.panic = ""
    /\ \E task \in 1..MaxTasks :
         /\ task = Cardinality(wp.submitted) + 1
         /\ IF wp.pc # "open"
            THEN wp' = WorkerPoolSubmitClosed(wp, task)
            ELSE /\ ChanHasRoom(wp)
                 /\ wp' = WorkerPoolSubmit(wp, task)
    /\ UNCHANGED exceptPool

\* worker: task := <-p.tasks
PoolWorkerTake(w) ==
    /\ wp.pc # "none"
    /\ wp.panic = ""
    /\ w \notin wp.exited
    /\ wp.running[w] = 0
    /\ wp.queue # <<>>
    /\ wp' = [wp EXCEPT !.running[w] = Head(wp.queue), !.queue = Tail(@)]
    /\ UNCHANGED exceptPool

\* worker: task() returns
PoolWorkerRun(w) ==
    /\ wp.pc # "none"
    /\ wp.panic = ""
    /\ wp.running[w] # 0
    /\ wp' = [wp EXCEPT !.done = @ \cup {wp.running[w]}, !.running[w] = 0]
    /\ UNCHANGED exceptPool

\* worker: the loop ends, defer p.wg.Done()
PoolWorkerExit(w) ==
    /\ wp.pc # "none"
    /\ wp.panic = ""
    /\ w \notin wp.exited
    /\ WorkerLeaves(wp, w)
    /\ wp' = [wp EXCEPT !.exited = @ \cup {w}]
    /\ UNCHANGED exceptPool

PoolClose ==
    /\ wp.pc = "open"
    /\ wp.panic = ""
    /\ wp' = WorkerPoolClose(wp)
    /\ UNCHANGED exceptPool

\* p.wg.Wait() returns: every worker has called wg.Done
PoolCloseReturn ==
    /\ wp.pc = "closing"
    /\ wp.panic = ""
    /\ wp.exited = 1..Workers
    /\ wp' = [wp EXCEPT !.pc = "closed"]
    /\ UNCHANGED exceptPool

InitPool ==
    /\ wp = NewWorkerPool
    /\ del = NoDelete
    /\ br = NoBrowser
    /\ xl = NoSheet
    /\ dx = NoDocx
    /\ life = NoLife
    /\ launch = NoLaunch
    /\ tmp = NoTmp
    /\ bc = NoBatches
    /\ MainIdle

NextPool ==
    \/ PoolSubmit
    \/ \E w \in 1..Workers : PoolWorkerTake(w)
    \/ \E w \in 1..Workers : PoolWorkerRun(w)
    \/ \E w \in 1..Workers : PoolWorkerExit(w)
    \/ PoolClose
    \/ PoolCloseReturn

SpecPool == InitPool /\ [][NextPool]_vars

(***************************************************************************)
(* The headless browser and the two components that hold its handle: the   *)
(* HeadlessBrowserAdapter, which launches it lazily, and the App, which    *)
(* launches it in OnStartup, hands it to the engines and closes it in      *)
(* OnShutdown.  The log records every launch, render and close together    *)
(* with the state the browser process was in.                              *)
(***************************************************************************)
MaxCalls == 5

\* br.proc: the browser process: "absent", "launching", "ready", "closed"
\* br.handle: the holder's *HeadlessBrowser field: "nil" or "set"
NewBrowserHolder(who, handle, proc) ==
    [pc |-> "idle", who |-> who, handle |-> handle, proc |-> proc,
     calls |-> 0,        \* GenerateFromHTML calls / conversions begun
     pending |-> 0,      \* conversions begun whose PDF stage is still to run
     log |-> <<>>]

BrowserLog(b, ev) == [b EXCEPT !.log = Append(@, [ev |-> ev, on |-> b.proc])]

\* HeadlessBrowser.GeneratePDFFromHTMLBytes: h.browser.Page(...) is issued
\* on whatever the handle points to
GeneratePDFFromHTMLBytes(b) == BrowserLog(b, "render")

\* HeadlessBrowser.Close: h.browser.Close(); the holder keeps its handle
HeadlessBrowserClose(b) == [BrowserLog(b, "close") EXCEPT !.proc = "closed"]

\* NewHeadlessBrowser returned: a connected browser, or an error
NewHeadlessBrowser(b, ok) ==
    IF ok THEN [BrowserLog(b, "launched") EXCEPT !.handle = "set", !.proc = "ready"]
    ELSE [BrowserLog(b, "launch failed") EXCEPT !.handle = "nil", !.proc = "absent"]

\* HeadlessBrowserAdapter.GenerateFromHTML up to the launch or the render
AdapterGenerateFromHTML ==
    /\ br.pc = "idle"
    /\ br.who = "adapter"
    /\ br.calls < MaxCalls
    /\ IF br.handle = "nil"
       THEN br' = [br EXCEPT !.pc = "launching", !.proc = "launching",
                             !.calls = @ + 1]
       ELSE br' = [GeneratePDFFromHTMLBytes(br) EXCEPT !.calls = @ + 1]
    /\ UNCHANGED exceptBrowser

\* ... NewHeadlessBrowser returns; on success the render follows
AdapterLaunched ==
    /\ br.pc = "launching"
    /\ br.who = "adapter"
    /\ \E ok \in BOOLEAN :
         br' = IF ok
               THEN [GeneratePDFFromHTMLBytes(NewHeadlessBrowser(br, TRUE))
                       EXCEPT !.pc = "idle"]
               ELSE [NewHeadlessBrowser(br, FALSE) EXCEPT !.pc = "idle"]
    /\ UNCHANGED exceptBrowser

\* HeadlessBrowserAdapter.Close
AdapterClose ==
    /\ br.pc = "idle"
    /\ br.who = "adapter"
    /\ br.calls < MaxCalls
    /\ br' = IF br.handle = "set"
             THEN [HeadlessBrowserClose(br) EXCEPT !.calls = @ + 1]
             ELSE [br EXCEPT !.calls = @ + 1]
    /\ UNCHANGED exceptBrowser

\* A conversion to PDF is started through the App before shutdown (a bound
\* method runs in its own goroutine, which OnShutdown does not wait for);
\* the engines exist only when the browser was launched
AppConversionBegins ==
    /\ br.pc = "idle"
    /\ br.who = "app"
    /\ br.handle = "set"
    /\ br.calls < MaxCalls
    /\ br' = [br EXCEPT !.calls = @ + 1, !.pending = @ + 1]
    /\ UNCHANGED exceptBrowser

\* ... and reaches pdfGenerator.GeneratePDFFromHTML
AppConversionRenders ==
    /\ br.pc \in {"idle", "shut"}
    /\ br.who = "app"
    /\ br.pending > 0
    /\ br' = [GeneratePDFFromHTMLBytes(br) EXCEPT !.pending = @ - 1]
    /\ UNCHANGED exceptBrowser

\* App.OnShutdown: a.headlessBrowser.Close() when the handle is non-nil
OnShutdown ==
    /\ br.pc = "idle"
    /\ br.who = "app"
    /\ br' = IF br.handle = "set"
             THEN [HeadlessBrowserClose(br) EXCEPT !.pc = "shut"]
             ELSE [br EXCEPT !.pc = "shut"]
    /\ UNCHANGED exceptBrowser

InitBrowser ==
    /\ br \in { NewBrowserHolder("adapter", "nil", "absent"),
                NewBrowserHolder("app", "nil", "absent"),
                NewBrowserHolder("app", "set", "ready") }
    /\ del = NoDelete
    /\ wp = NoWorkerPool
    /\ xl = NoSheet
    /\ dx = NoDocx
    /\ life = NoLife
    /\ launch = NoLaunch
    /\ tmp = NoTmp
    /\ bc = NoBatches
    /\ MainIdle

NextBrowser ==
    \/ AdapterGenerateFromHTML
    \/ AdapterLaunched
    \/ AdapterClose
    \/ AppConversionBegins
    \/ AppConversionRenders
    \/ OnShutdown

SpecBrowser == InitBrowser /\ [][NextBrowser]_vars

(***************************************************************************)
(* A worksheet: ExcelParser.parseSheet with buildMergeMap, and              *)
(* HTMLRenderer.renderSheet.  The workbook holds cells in a grid of         *)
(* GridRows x GridCols; GetRows returns each row without its trailing empty *)
(* cells and no row after the last non-empty one; GetMergeCells returns     *)
(* rectangles of the grid that do not overlap.  Cell references are pairs   *)
(* <<row, col>> counted from 1.                                             *)
(***************************************************************************)
GridRows == 2

GridCols == 3

MaxMerges == 2

\* A merged range: top-left <<r1, c1>>, bottom-right <<r2, c2>>, more than
\* one cell
MergeCells ==
    {m \in [r1 : 1..GridRows, c1 : 1..GridCols, r2 : 1..GridRows, c2 : 1..GridCols] :
        m.r1 <= m.r2 /\ m.c1 <= m.c2 /\ (m.r1 < m.r2 \/ m.c1 < m.c2)}

InRange(m, r, c) == m.r1 <= r /\ r <= m.r2 /\ m.c1 <= c /\ c <= m.c2

Overlap(m, n) ==
    \E r \in 1..GridRows, c \in 1..GridCols : InRange(m, r, c) /\ InRange(n, r, c)

\* What GetMergeCells may return
MergeLists ==
    {ms \in SUBSET MergeCells :
        /\ Cardinality(ms) <= MaxMerges
        /\ \A m, n \in ms : m # n => ~Overlap(m, n)}

\* What GetRows may return: the length of each row
RowLists ==
    {rows \in UNION {[1..n -> 0..GridCols] : n \in 1..GridRows} :
        rows[Len(rows)] > 0}

\* buildMergeMap: startCells (top-left cell -> spans) and coveredCells
buildMergeMap(mergedCells) ==
    [startCells |->
        [ref \in {<<m.r1, m.c1>> : m \in mergedCells} |->
            LET m == CHOOSE n \in mergedCells : <<n.r1, n.c1>> = ref
            IN  [colSpan |-> m.c2 - m.c1 + 1, rowSpan |-> m.r2 - m.r1 + 1]],
     coveredCells |->
        {ref \in (1..GridRows) \X (1..GridCols) :
            \E m \in mergedCells :
                InRange(m, ref[1], ref[2]) /\ ref # <<m.r1, m.c1>>}]

\* parseSheet: the CellData of the cell GetRows returned at row r, column c
ParseCell(mergeResult, r, c) ==
    [Row |-> r, Col |-> c,
     IsMergeCovered |-> <<r, c>> \in mergeResult.coveredCells,
     IsMerged |-> <<r, c>> \in DOMAIN mergeResult.startCells,
     MergeAcross |-> IF <<r, c>> \in DOMAIN mergeResult.startCells
                     THEN mergeResult.startCells[<<r, c>>].colSpan - 1 ELSE 0,
     MergeDown |-> IF <<r, c>> \in DOMAIN mergeResult.startCells
                   THEN mergeResult.startCells[<<r, c>>].rowSpan - 1 ELSE 0]

MaxOf(S) == IF S = {} THEN 0 ELSE CHOOSE x \in S : \A y \in S : y <= x

\* parseSheet: SheetData from the rows and merged ranges of the sheet
parseSheet(rows, mergedCells) ==
    LET mergeResult == buildMergeMap(mergedCells) IN
    [Rows |-> [r \in 1..Len(rows) |->
                 [c \in 1..rows[r] |-> ParseCell(mergeResult, r, c)]],
     MaxColumns |-> MaxOf({rows[r] : r \in 1..Len(rows)}),
     MaxRows |-> Len(rows)]

\* renderCell: the <td> of a cell, with the spans its attributes give it
renderCell(cell) ==
    [col |-> cell.Col,
     colspan |-> IF cell.IsMerged /\ cell.MergeAcross > 0
                 THEN cell.MergeAcross + 1 ELSE 1,
     rowspan |-> IF cell.IsMerged /\ cell.MergeDown > 0
                 THEN cell.MergeDown + 1 ELSE 1,
     pad |-> FALSE]

\* renderSheet: the <td> elements emitted for a row, from column colIdx on
RECURSIVE renderRow(_, _, _)
renderRow(row, colIdx, maxColumns) ==
    IF colIdx > maxColumns THEN <<>>
    ELSE IF colIdx <= Len(row)
    THEN IF row[colIdx].IsMergeCovered
         THEN renderRow(row, colIdx + 1, maxColumns)
         ELSE <<renderCell(row[colIdx])>> \o renderRow(row, colIdx + 1, maxColumns)
    ELSE <<[col |-> colIdx, colspan |-> 1, rowspan |-> 1, pad |-> TRUE]>>
         \o renderRow(row, colIdx + 1, maxColumns)

\* renderSheet: the rows of the <table>
renderSheet(sheet) ==
    [r \in 1..Len(sheet.Rows) |-> renderRow(sheet.Rows[r], 1, sheet.MaxColumns)]

ParseSheet ==
    /\ xl.pc = "opened"
    /\ xl' = [xl EXCEPT !.pc = "parsed",
                        !.sheet = parseSheet(xl.rows, xl.merges)]
    /\ UNCHANGED exceptSheet

RenderSheet ==
    /\ xl.pc = "parsed"
    /\ xl' = [xl EXCEPT !.pc = "rendered", !.html = renderSheet(xl.sheet)]
    /\ UNCHANGED exceptSheet

InitSheet ==
    /\ \E rows \in RowLists, merges \in MergeLists :
         xl = [pc |-> "opened", rows |-> rows, merges |-> merges,
               sheet |-> <<>>, html |-> <<>>]
    /\ del = NoDelete
    /\ wp = NoWorkerPool
    /\ br = NoBrowser
    /\ dx = NoDocx
    /\ life = NoLife
    /\ launch = NoLaunch
    /\ tmp = NoTmp
    /\ bc = NoBatches
    /\ MainIdle

NextSheet == ParseSheet \/ RenderSheet

SpecSheet == InitSheet /\ [][NextSheet]_vars

(***************************************************************************)
(* DocxParser.parseDocumentXML: the token loop over word/document.xml.      *)
(* A document is a sequence of tokens (start element, end element,          *)
(* character data); the documents enumerated are well-formed bodies of      *)
(* paragraphs and one-row tables without property elements.  Every          *)
(* character-data token carries its position in the document as its text,  *)
(* so a run is told from every other run; a text is a sequence of these.    *)
(***************************************************************************)
MaxBlocks == 2

MaxCells == 2

\* xml.StartElement with Name.Space and Name.Local
StartElementNS(space, name) ==
    [kind |-> "start", space |-> space, name |-> name, text |-> 0]

EndElementNS(space, name) ==
    [kind |-> "end", space |-> space, name |-> name, text |-> 0]

\* An element of the WordprocessingML namespace
StartElement(name) == StartElementNS("w", name)

EndElement(name) == EndElementNS("w", name)

CharData == [kind |-> "chars", space |-> "", name |-> "", text |-> 0]

\* An element with no child element: <s:name>content</s:name>
XmlElement(space, name, content) ==
    <<StartElementNS(space, name)>> \o content \o <<EndElementNS(space, name)>>

\* What may follow the run of a paragraph: a bookmark, an empty DrawingML
\* paragraph, a DrawingML paragraph with a run of text
XmlForeign ==
    {XmlElement("w", "bookmarkStart", <<>>),
     XmlElement("a", "p", <<>>),
     XmlElement("a", "p",
                XmlElement("a", "r", XmlElement("a", "t", <<CharData>>)))}

\* <w:r><w:t>text</w:t></w:r>
XmlRun ==
    <<StartElement("r"), StartElement("t"), CharData, EndElement("t"), EndElement("r")>>

\* <w:p> runs </w:p>
XmlParagraph(runs) == <<StartElement("p")>> \o runs \o <<EndElement("p")>>

\* <w:tc> content </w:tc>
XmlCell(content) == <<StartElement("tc")>> \o content \o <<EndElement("tc")>>

\* What a cell may hold: nothing, a run, a paragraph with a run
CellContents == {<<>>, XmlRun, XmlParagraph(XmlRun)}

RECURSIVE Flatten(_)
Flatten(seqs) == IF seqs = <<>> THEN <<>> ELSE Head(seqs) \o Flatten(Tail(seqs))

\* <w:tbl><w:tr> cells </w:tr></w:tbl>
XmlTable(cells) ==
    <<StartElement("tbl"), StartElement("tr")>>
        \o Flatten([k \in DOMAIN cells |-> XmlCell(cells[k])])
        \o <<EndElement("tr"), EndElement("tbl")>>

XmlBlocks ==
    {XmlParagraph(<<>>), XmlParagraph(XmlRun)}
        \cup {XmlParagraph(XmlRun \o other) : other \in XmlForeign}
        \cup {XmlTable(cells) : cells \in UNION {[1..n -> CellContents] : n \in 1..MaxCells}}

\* Character data numbered by its position
Numbered(tokens) ==
    [k \in DOMAIN tokens |->
        IF tokens[k].kind = "chars" THEN [tokens[k] EXCEPT !.text = k] ELSE tokens[k]]

\* parseDocumentXML: the local variables before the first token
NewDocxParse(xmlData) ==
    [pc |-> "decoding", xmlData |-> xmlData, pos |-> 1,
     Elements |-> <<>>,
     currentParagraph |-> <<>>, currentTable |-> <<>>,
     currentTableRow |-> <<>>, currentTableCell |-> <<>>,
     currentRun |-> [Text |-> <<>>], currentText |-> <<>>,
     inParagraph |-> FALSE, inTable |-> FALSE, inTableRow |-> FALSE,
     inTableCell |-> FALSE, inRun |-> FALSE, inText |-> FALSE]

\* The text of the runs, one after the other
RunsText(runs) == Flatten([k \in DOMAIN runs |-> runs[k].Text])

\* case xml.StartElement; a nil pointer is the empty sequence
OnStartElement(d, name) ==
    CASE name = "p" ->
           [d EXCEPT !.inParagraph = TRUE,
                     !.currentParagraph = <<[Runs |-> <<>>, Text |-> <<>>]>>]
      [] name = "tbl" ->
           [d EXCEPT !.inTable = TRUE, !.currentTable = <<[Rows |-> <<>>]>>]
      [] name = "tr" ->
           IF d.inTable
           THEN [d EXCEPT !.inTableRow = TRUE,
                          !.currentTableRow = <<[Cells |-> <<>>]>>]
           ELSE d
      [] name = "tc" ->
           IF d.inTableRow
           THEN [d EXCEPT !.inTableCell = TRUE,
                          !.currentTableCell =
                              <<[Runs |-> <<>>, Text |-> <<>>,
                                 ColSpan |-> 1, RowSpan |-> 1]>>]
           ELSE d
      [] name = "r" ->
           [d EXCEPT !.inRun = TRUE, !.currentRun = [Text |-> <<>>],
                     !.currentText = <<>>]
      [] name = "t" -> [d EXCEPT !.inText = TRUE]
      [] OTHER -> d

\* case "r" of xml.EndElement: the run goes to the open paragraph, else to
\* the open table cell
OnEndRun(d) ==
    IF ~d.inRun THEN d
    ELSE LET run == [d.currentRun EXCEPT !.Text = d.currentText]
             kept ==
                 IF d.inParagraph /\ d.currentParagraph # <<>>
                 THEN [d EXCEPT !.currentParagraph[1].Runs = Append(@, run)]
                 ELSE IF d.inTableCell /\ d.currentTableCell # <<>>
                 THEN [d EXCEPT !.currentTableCell[1].Runs = Append(@, run)]
                 ELSE d
         IN  [kept EXCEPT !.inRun = FALSE, !.currentRun = [Text |-> <<>>],
                          !.currentText = <<>>]

\* case "p" of xml.EndElement: the paragraph becomes an element of the
\* document
OnEndParagraph(d) ==
    IF d.inParagraph /\ d.currentParagraph # <<>>
    THEN LET para == [d.currentParagraph[1] EXCEPT
                         !.Text = RunsText(d.currentParagraph[1].Runs)]
         IN  [d EXCEPT !.Elements =
                           IF para.Text # <<>> \/ Len(para.Runs) > 0
                           THEN Append(@, [Type |-> "ElementTypeParagraph",
                                           Paragraph |-> para])
                           ELSE @,
                       !.inParagraph = FALSE,
                       !.currentParagraph = <<>>]
    ELSE d

\* case xml.EndElement
OnEndElement(d, name) ==
    CASE name = "p" -> OnEndParagraph(d)
      [] name = "r" -> OnEndRun(d)
      [] name = "t" -> [d EXCEPT !.inText = FALSE]
      [] name = "tc" ->
           IF d.inTableCell /\ d.currentTableCell # <<>>
           THEN LET cell == [d.currentTableCell[1] EXCEPT
                                !.Text = RunsText(d.currentTableCell[1].Runs)]
                IN  [d EXCEPT !.currentTableRow =
                                  IF @ # <<>>
                                  THEN <<[@[1] EXCEPT !.Cells = Append(@, cell)]>>
                                  ELSE @,
                              !.inTableCell = FALSE,
                              !.currentTableCell = <<>>]
           ELSE d
      [] name = "tr" ->
           IF d.inTableRow /\ d.currentTableRow # <<>>
           THEN [d EXCEPT !.currentTable =
                              IF @ # <<>>
                              THEN <<[@[1] EXCEPT
                                        !.Rows = Append(@, d.currentTableRow[1])]>>
                              ELSE @,
                          !.inTableRow = FALSE,
                          !.currentTableRow = <<>>]
           ELSE d
      [] name = "tbl" ->
           IF d.inTable /\ d.currentTable # <<>> /\ Len(d.currentTable[1].Rows) > 0
           THEN [d EXCEPT !.Elements =
                              Append(@, [Type |-> "ElementTypeTable",
                                         Table |-> d.currentTable[1]]),
                          !.inTable = FALSE,
                          !.currentTable = <<>>]
           ELSE d
      [] OTHER -> d

\* case xml.CharData
OnCharData(d, text) ==
    IF d.inText /\ d.inRun
    THEN [d EXCEPT !.currentText = Append(@, text)]
    ELSE d

\* switch se := token.(type): the cases switch on se.Name.Local
OnToken(d, token) ==
    CASE token.kind = "start" -> OnStartElement(d, token.name)
      [] token.kind = "end" -> OnEndElement(d, token.name)
      [] OTHER -> OnCharData(d, token.text)

\* One turn of the loop: decoder.Token() and the switch on its type
DecodeToken ==
    /\ dx.pc = "decoding"
    /\ dx.pos <= Len(dx.xmlData)
    /\ dx' = [OnToken(dx, dx.xmlData[dx.pos]) EXCEPT !.pos = dx.pos + 1]
    /\ UNCHANGED exceptDocx

\* io.EOF: the loop ends and the document is returned
DecodeEOF ==
    /\ dx.pc = "decoding"
    /\ dx.pos > Len(dx.xmlData)
    /\ dx' = [dx EXCEPT !.pc = "parsed"]
    /\ UNCHANGED exceptDocx

InitDocx ==
    /\ \E n \in 0..MaxBlocks : \E blocks \in [1..n -> XmlBlocks] :
         dx = NewDocxParse(Numbered(Flatten(blocks)))
    /\ del = NoDelete
    /\ wp = NoWorkerPool
    /\ br = NoBrowser
    /\ xl = NoSheet
    /\ life = NoLife
    /\ launch = NoLaunch
    /\ tmp = NoTmp
    /\ bc = NoBatches
    /\ MainIdle

NextDocx == DecodeToken \/ DecodeEOF

SpecDocx == InitDocx /\ [][NextDocx]_vars

(***************************************************************************)
(* The engines of one process and their worker pools, from OnStartup to    *)
(* OnShutdown.  NewDocumentEngine, NewSpreadsheetEngine and                 *)
(* initializeImageEngine each start a WorkerPool; a pool is summarised by  *)
(* the number of its workers that run a task and that have left their      *)
(* loop.  Batches keep workers busy while the application runs.            *)
(***************************************************************************)
MaxJobs == 3

EngineNames == {"spreadsheet", "document", "image"}

\* No engine of that kind was constructed
NoEnginePool == [made |-> FALSE, closed |-> FALSE, busy |-> 0, exited |-> 0]

\* image.NewWorkerPool() in the engine's constructor: every worker in its
\* loop
EnginePool == [made |-> TRUE, closed |-> FALSE, busy |-> 0, exited |-> 0]

\* OnShutdown: the engines whose Close it calls
ShutdownCloses(l) == {e \in {"image"} : l.pools[e].made}

\* OnStartup: initializeEngines constructs the spreadsheet and the document
\* engine when a browser was found
LifeOnStartup ==
    /\ life.pc = "starting"
    /\ \E browserFound \in BOOLEAN :
         life' = [life EXCEPT
                    !.pc = "running",
                    !.browser = IF browserFound THEN "open" ELSE "none",
                    !.pools = [e \in EngineNames |->
                                 IF e \in OnStartup(browserFound)
                                 THEN EnginePool ELSE @[e]]]
    /\ UNCHANGED exceptLife

\* A worker of the engine's pool receives a task of a batch
LifeTaskStart(e) ==
    /\ life.pc \in {"running", "closing", "shut"}
    /\ life.pools[e].made
    /\ ~life.pools[e].closed
    /\ life.jobs < MaxJobs
    /\ life.pools[e].busy + life.pools[e].exited < Workers
    /\ life' = [life EXCEPT !.pools[e].busy = @ + 1, !.jobs = @ + 1]
    /\ UNCHANGED exceptLife

\* The task returns
LifeTaskDone(e) ==
    /\ life.pc # "none"
    /\ life.pools[e].busy > 0
    /\ life' = [life EXCEPT !.pools[e].busy = @ - 1]
    /\ UNCHANGED exceptLife

\* worker: the range loop over the closed channel ends, wg.Done()
LifeWorkerExit(e) ==
    /\ life.pc # "none"
    /\ life.pools[e].closed
    /\ life.pools[e].busy + life.pools[e].exited < Workers
    /\ life' = [life EXCEPT !.pools[e].exited = @ + 1]
    /\ UNCHANGED exceptLife

\* OnShutdown up to p.wg.Wait(): the browser is closed, then
\* imgEngine.Close() closes the channel of the image engine's pool
LifeOnShutdown ==
    /\ life.pc = "running"
    /\ life' = [life EXCEPT
                  !.pc = "closing",
                  !.browser = IF @ = "open" THEN "closed" ELSE @,
                  !.pools = [e \in EngineNames |->
                               IF e \in ShutdownCloses(life)
                               THEN [@[e] EXCEPT !.closed = TRUE] ELSE @[e]]]
    /\ UNCHANGED exceptLife

\* OnShutdown: wg.Wait() of every pool it closed has returned; the temp
\* files are cleaned up and OnShutdown returns
LifeShutdownDone ==
    /\ life.pc = "closing"
    /\ \A e \in EngineNames : life.pools[e].closed => life.pools[e].exited = Workers
    /\ life' = [life EXCEPT !.pc = "shut"]
    /\ UNCHANGED exceptLife

\* The process before OnStartup; an image engine may have been constructed
InitLife ==
    /\ \E image \in BOOLEAN :
         life = [pc |-> "starting", browser |-> "none", jobs |-> 0,
                 pools |-> [e \in EngineNames |->
                              IF e = "image" /\ image THEN EnginePool
                              ELSE NoEnginePool]]
    /\ del = NoDelete
    /\ wp = NoWorkerPool
    /\ br = NoBrowser
    /\ xl = NoSheet
    /\ dx = NoDocx
    /\ launch = NoLaunch
    /\ tmp = NoTmp
    /\ bc = NoBatches
    /\ MainIdle

NextLife ==
    \/ LifeOnStartup
    \/ \E e \in EngineNames : LifeTaskStart(e)
    \/ \E e \in EngineNames : LifeTaskDone(e)
    \/ \E e \in EngineNames : LifeWorkerExit(e)
    \/ LifeOnShutdown
    \/ LifeShutdownDone

SpecLife == InitLife /\ [][NextLife]_vars

(***************************************************************************)
(* HeadlessBrowserAdapter.GenerateFromHTML called from several goroutines  *)
(* on one adapter whose browser is not launched yet.  The field            *)
(* a.headlessBrowser is read and written without synchronisation: a read   *)
(* yields one of the values the field has held since the caller's last     *)
(* synchronisation (the entry of the call, or its own write).  Browsers    *)
(* are numbered in the order of their launch; 0 is the nil handle.         *)
(***************************************************************************)
Callers == 3

\* A caller outside GenerateFromHTML
IdleCaller == [pc |-> "idle", view |-> {}, on |-> 0]

\* Another goroutine writes v to the field: every caller inside the method
\* may from now on read v
FieldWritten(th, writer, v) ==
    [t \in DOMAIN th |->
        IF t = writer THEN [th[t] EXCEPT !.view = {v}]
        ELSE IF th[t].pc \in {"idle", "done"} THEN th[t]
        ELSE [th[t] EXCEPT !.view = @ \cup {v}]]

\* GenerateFromHTML is entered
LaunchEnter(t) ==
    /\ launch.pc = "run"
    /\ launch.th[t].pc = "idle"
    /\ launch' = [launch EXCEPT !.th[t] = [pc |-> "check",
                                           view |-> {launch.handle},
                                           on |-> 0]]
    /\ UNCHANGED exceptLaunch

\* if a.headlessBrowser == nil { browser, err := NewHeadlessBrowser() ...
LaunchCheck(t) ==
    /\ launch.pc = "run"
    /\ launch.th[t].pc = "check"
    /\ \E h \in launch.th[t].view :
         launch' = [launch EXCEPT !.th[t].pc =
                        IF h = 0 THEN "launching" ELSE "render"]
    /\ UNCHANGED exceptLaunch

\* NewHeadlessBrowser returns: a.headlessBrowser = browser, or return nil
LaunchReturns(t) ==
    /\ launch.pc = "run"
    /\ launch.th[t].pc = "launching"
    /\ \E ok \in BOOLEAN :
         IF ok
         THEN launch' = [launch EXCEPT
                           !.launched = @ + 1,
                           !.handle = launch.launched + 1,
                           !.th = [FieldWritten(@, t, launch.launched + 1)
                                     EXCEPT ![t].pc = "render"]]
         ELSE launch' = [launch EXCEPT !.th[t].pc = "done"]
    /\ UNCHANGED exceptLaunch

\* a.headlessBrowser.GeneratePDFFromHTMLBytes(ctx, htmlContent)
LaunchRender(t) ==
    /\ launch.pc = "run"
    /\ launch.th[t].pc = "render"
    /\ \E h \in launch.th[t].view \ {0} :
         launch' = [launch EXCEPT !.th[t].pc = "done", !.th[t].on = h,
                                  !.rendered = @ \cup {h}]
    /\ UNCHANGED exceptLaunch

InitLaunch ==
    /\ launch = [pc |-> "run", handle |-> 0, launched |-> 0, rendered |-> {},
                 th |-> [t \in 1..Callers |-> IdleCaller]]
    /\ del = NoDelete
    /\ wp = NoWorkerPool
    /\ br = NoBrowser
    /\ xl = NoSheet
    /\ dx = NoDocx
    /\ life = NoLife
    /\ tmp = NoTmp
    /\ bc = NoBatches
    /\ MainIdle

NextLaunch ==
    \/ \E t \in 1..Callers : LaunchEnter(t)
    \/ \E t \in 1..Callers : LaunchCheck(t)
    \/ \E t \in 1..Callers : LaunchReturns(t)
    \/ \E t \in 1..Callers : LaunchRender(t)

SpecLaunch == InitLaunch /\ [][NextLaunch]_vars

(***************************************************************************)
(* Several BatchConvert calls on the WorkerPool of one engine.  Each call  *)
(* has its own sync.WaitGroup and submits its tasks one by one; the pool,  *)
(* never closed, has Workers workers and a channel of 2 x Workers tasks.   *)
(* A task in the channel or with a worker is named by the call it belongs  *)
(* to.                                                                     *)
(***************************************************************************)
MaxBatchSize == 7

MaxSecondBatch == 2

BatchCalls == {1, 2}

\* BatchConvert(tasks) entered: results allocated, nothing submitted
NewBatchCall(n) == [pc |-> "submit", n |-> n, next |-> 1, wg |-> 0, ran |-> 0]

\* Mutant: the task returns without wg.Done().
WgDone_Skipped(call) == [call EXCEPT !.ran = @ + 1]

\* defer wg.Done() of a task of the call
WgDone(call) == [call EXCEPT !.wg = @ - 1, !.ran = @ + 1]

\* for _, task := range tasks { wg.Add(1); e.workerPool.Submit(...) }: one
\* iteration; the send waits while the channel is full
BatchSubmit(c) ==
    /\ bc.pc = "run"
    /\ bc.call[c].pc = "submit"
    /\ bc.call[c].next <= bc.call[c].n
    /\ Len(bc.queue) < QueueCap
    /\ bc' = [bc EXCEPT !.queue = Append(@, c),
                        !.call[c].wg = @ + 1,
                        !.call[c].next = @ + 1]
    /\ UNCHANGED exceptBatches

\* The loop is over: wg.Wait() is called
BatchWait(c) ==
    /\ bc.pc = "run"
    /\ bc.call[c].pc = "submit"
    /\ bc.call[c].next > bc.call[c].n
    /\ bc' = [bc EXCEPT !.call[c].pc = "wait"]
    /\ UNCHANGED exceptBatches

\* wg.Wait() returns; return results
BatchReturn(c) ==
    /\ bc.pc = "run"
    /\ bc.call[c].pc = "wait"
    /\ bc.call[c].wg = 0
    /\ bc' = [bc EXCEPT !.call[c].pc = "ret"]
    /\ UNCHANGED exceptBatches

\* worker: task := <-p.tasks
BatchWorkerTake(w) ==
    /\ bc.pc = "run"
    /\ bc.running[w] = 0
    /\ bc.queue # <<>>
    /\ bc' = [bc EXCEPT !.running[w] = Head(bc.queue), !.queue = Tail(@)]
    /\ UNCHANGED exceptBatches

\* worker: task() has converted its file, stored the result and returns
BatchWorkerRun(w) ==
    /\ bc.pc = "run"
    /\ bc.running[w] # 0
    /\ bc' = [bc EXCEPT !.call[bc.running[w]] = WgDone(@),
                        !.running[w] = 0]
    /\ UNCHANGED exceptBatches

\* The first call has 1 .. MaxBatchSize tasks, the second, when there is
\* one, up to MaxSecondBatch
InitBatches ==
    /\ \E n1 \in 1..MaxBatchSize, n2 \in 0..MaxSecondBatch :
         bc = [pc |-> "run", queue |-> <<>>,
               running |-> [w \in 1..Workers |-> 0],
               call |-> [c \in BatchCalls |->
                           IF c = 1 THEN NewBatchCall(n1)
                           ELSE IF n2 = 0
                           THEN [NewBatchCall(0) EXCEPT !.pc = "ret"]
                           ELSE NewBatchCall(n2)]]
    /\ del = NoDelete
    /\ wp = NoWorkerPool
    /\ br = NoBrowser
    /\ xl = NoSheet
    /\ dx = NoDocx
    /\ life = NoLife
    /\ launch = NoLaunch
    /\ tmp = NoTmp
    /\ MainIdle

NextBatches ==
    \/ \E c \in BatchCalls : BatchSubmit(c)
    \/ \E c \in BatchCalls : BatchWait(c)
    \/ \E c \in BatchCalls : BatchReturn(c)
    \/ \E w \in 1..Workers : BatchWorkerTake(w)
    \/ \E w \in 1..Workers : BatchWorkerRun(w)

SpecBatches == InitBatches /\ [][NextBatches]_vars

\* Every goroutine that can run does run, and every Convert terminates
SpecBatchesFair ==
    /\ SpecBatches
    /\ \A c \in BatchCalls :
         WF_vars(BatchSubmit(c)) /\ WF_vars(BatchWait(c)) /\ WF_vars(BatchReturn(c))
    /\ \A w \in 1..Workers :
         WF_vars(BatchWorkerTake(w)) /\ WF_vars(BatchWorkerRun(w))

(***************************************************************************)
(* ConvertFileWithPath with an output path inside the temp directory, and  *)
(* the cleanup it schedules.  Conversions are numbered in the order of     *)
(* their calls; a file is known by the conversion that wrote it (0: no     *)
(* file).  Every cleanup sleeps the same tempFileCleanupDelay, so the      *)
(* cleanups fire in the order in which they were scheduled, at any moment  *)
(* relative to later conversions.                                          *)
(***************************************************************************)
MaxConversions == 3

\* Output paths below the temp directory
TmpPaths == {"out1", "out2"}

\* os.Remove(path), also the effect of a.DeleteTempFile(path) on a path in
\* the temp directory
TmpRemove(files, path) == [files EXCEPT ![path] = 0]

\* ConvertFileWithPath(sourcePath, targetFormat, outputPath) is called
TmpConvertBegins ==
    /\ tmp.pc = "run"
    /\ tmp.cur = 0
    /\ tmp.calls < MaxConversions
    /\ \E path \in TmpPaths :
         tmp' = [tmp EXCEPT !.cur = tmp.calls + 1, !.calls = @ + 1,
                            !.path = path]
    /\ UNCHANGED exceptTmp

\* converterService.Convert returned.  On failure the output path is
\* removed; on success the cleanup is scheduled and the path is reported
TmpConvertReturns ==
    /\ tmp.pc = "run"
    /\ tmp.cur # 0
    /\ \E success \in BOOLEAN :
         IF success
         THEN tmp' = [tmp EXCEPT
                        !.files[tmp.path] = tmp.cur,
                        !.timers = Append(@, [by |-> tmp.cur, path |-> tmp.path]),
                        !.reported = @ \cup {[by |-> tmp.cur, path |-> tmp.path]},
                        !.cur = 0]
         ELSE tmp' = [tmp EXCEPT !.files = TmpRemove(@, tmp.path), !.cur = 0]
    /\ UNCHANGED exceptTmp

\* scheduleTempFileCleanup: time.Sleep is over, a.DeleteTempFile(filePath)
TmpCleanupFires ==
    /\ tmp.pc = "run"
    /\ tmp.timers # <<>>
    /\ LET timer == Head(tmp.timers) IN
         tmp' = [tmp EXCEPT
                   !.timers = Tail(@),
                   !.files = TmpRemove(@, timer.path),
                   !.removed = IF tmp.files[timer.path] = 0 THEN @
                               ELSE @ \cup {[by |-> timer.by,
                                             wrote |-> tmp.files[timer.path]]}]
    /\ UNCHANGED exceptTmp

\* OnShutdown: CleanupTempFiles removes the temp directory
TmpOnShutdown ==
    /\ tmp.pc = "run"
    /\ tmp.cur = 0
    /\ tmp' = [tmp EXCEPT !.pc = "shut", !.files = [path \in TmpPaths |-> 0]]
    /\ UNCHANGED exceptTmp

InitTmp ==
    /\ tmp = [pc |-> "run", cur |-> 0, calls |-> 0, path |-> "out1",
              files |-> [path \in TmpPaths |-> 0],
              timers |-> <<>>, reported |-> {}, removed |-> {}]
    /\ del = NoDelete
    /\ wp = NoWorkerPool
    /\ br = NoBrowser
    /\ xl = NoSheet
    /\ dx = NoDocx
    /\ life = NoLife
    /\ launch = NoLaunch
    /\ bc = NoBatches
    /\ MainIdle

NextTmp ==
    \/ TmpConvertBegins
    \/ TmpConvertReturns
    \/ TmpCleanupFires
    \/ TmpOnShutdown

SpecTmp == InitTmp /\ [][NextTmp]_vars

(***************************************************************************)
(* Properties                                                              *)
(***************************************************************************)
Range(q) == {q[i] : i \in 1..Len(q)}

ParallelDone == app.op = "batch" /\ app.pc = "done" /\ pool.eng # "nil"

SequentialDone == app.op = "batch" /\ batch.pc = "ret"

\* ConverterService.Convert has returned to its caller, which has not yet
\* acted on the result.
Returned == cv.pc = "ret" /\ (app.pc = "converting" \/ batch.pc = "b_item")

\* C1: when an engine's parallel BatchConvert has returned, the result slice
\* has one entry per task, entry i carries Index i, and its Error is the
\* error the conversion of task i returned, whatever the order in which the
\* workers completed the tasks.
C1_ParallelResultsByIndex ==
    ParallelDone =>
        /\ Len(pool.results) = Len(pool.tasks)
        /\ Len(hist.outcome) = Len(pool.tasks)
        /\ \A i \in 1..Len(pool.tasks) :
             /\ pool.tasks[i].Index = i - 1
             /\ pool.results[i].Index = i - 1
             /\ \A o \in Range(hist.outcome) :
                  o.Index = i - 1 => pool.results[i].Error = o.Error

\* A batch of two whose second task completed first, one failing, one not.
C1_Witness ==
    /\ ParallelDone
    /\ Len(pool.tasks) = 2
    /\ hist.outcome[1].Index = 1
    /\ hist.outcome[1].Error # ""
    /\ hist.outcome[2].Error = ""

\* C2 as stated: ConverterService.BatchConvert returns exactly len(files)
\* results, also when cancellation is signalled before the batch starts or
\* between two items.
C2_Original ==
    (SequentialDone /\ Len(app.files) > 0) =>
        Len(batch.results) = Len(app.files)

\* C2 amended: BatchConvert returns one result for each item whose
\* conversion it entered, in input order: results[i] is the result of
\* converting files[i]; these are all the files unless the batch observed
\* the cancellation before the first or between two items.
C2_PrefixOfResults ==
    SequentialDone =>
        /\ Len(batch.results) = Cardinality(hist.started)
        /\ hist.started = {k - 1 : k \in 1..Len(batch.results)}
        /\ Len(hist.done) = Len(batch.results)
        /\ \A k \in 1..Len(batch.results) :
             /\ hist.done[k].src = app.files[k]
             /\ batch.results[k] = hist.done[k].res
        /\ (~cancelled => Len(batch.results) = Len(app.files))

\* Cancellation between the first and second item: one result for two files.
C2_Witness ==
    /\ SequentialDone
    /\ cancelled
    /\ Len(app.files) = 2
    /\ Len(batch.results) = 1

\* No item of the batch writes to a path another item reads.
NoOverwrite(files, target) ==
    \A i, j \in 1..Len(files) : generateOutputPath(files[i], target) # files[j]

\* What converting file alone yields on the initial file system.
AloneService(file, target) ==
    ResultOf(ConvertRun([cv |-> NewConversion(file, generateOutputPath(file, target)),
                         fs |-> InitFS, events |-> <<>>, opened |-> {},
                         written |-> {}, calls |-> {}], Engs, FALSE).cv)

AloneEngine(eng, file, target) ==
    EngineRun(eng, [st |-> "e1", err |-> "", fs |-> InitFS,
                    opened |-> {}, written |-> {}],
              file, generateOutputPath(file, target)).err

C3_WitnessParallel ==
    /\ ParallelDone
    /\ Len(pool.results) = 2
    /\ pool.results[1].Error # ""
    /\ pool.results[2].Error = ""

\* C4: a Convert entered with the context already cancelled returns a failed
\* result carrying the cancellation, has invoked neither Validate nor Convert
\* of an engine, and has opened, created and written no file.
C4_CancelledBeforeStart ==
    (Returned /\ hist.cancelPc \in {"idle", "c_start"}) =>
        /\ cv.err = "cancelled"
        /\ ~ResultOf(cv).Success
        /\ calls = {}
        /\ opened = {}
        /\ written = {}
        /\ events[Len(events)] = Ev("error", -1)

\* A convertible file whose conversion was cancelled before its first
\* checkpoint.
C4_Witness ==
    /\ Returned
    /\ hist.cancelPc \in {"idle", "c_start"}
    /\ cv.src = P("home", "b", "docx")
    /\ "document" \in appEngines
    /\ cv.err = "cancelled"

\* Positions of a conversion from which at least one whole stage is still
\* to run before the engine's final write.
PreWritePcs ==
    {"c_start", "c_validate_input", "c_after_validation", "c_engine_validate",
     "c_before_conversion", "e1", "e2", "e3", "e_pdf"}

\* C5 as stated: a conversion during which cancellation was signalled before
\* the engine began its final write returns Cancelled and has left no output
\* file.
C5_Claim ==
    (Returned /\ hist.cancelPc \in PreWritePcs) =>
        /\ cv.err = "cancelled"
        /\ written = {}

\* C6 as stated: once cancellation is signalled, no conversion of a further
\* batch item is started.
C6_Claim == [][cancelled => hist.started' = hist.started]_vars

SupportedPair(fileType, outExt) ==
    \/ fileType \in {"XLSX", "DOCX"} /\ outExt \in {"pdf", "html"}
    \/ fileType \in {"JPEG", "PNG", "WEBP"} /\ outExt \in {"png", "jpeg", "webp"}

\* C7 as stated: a request for an unsupported (input type, target format)
\* pair fails with an unsupported-conversion error before the input file is
\* read and before any output file is created.
C7_Claim ==
    (/\ Returned
     /\ hist.cancelPc = "never"
     /\ detectFileType(cv.src) # ""
     /\ selectEngine(Engs, detectFileType(cv.src)) # "nil"
     /\ Content(InitFS, cv.src) = "ok"
     /\ ~SupportedPair(detectFileType(cv.src), cv.out.ext)) =>
        /\ cv.err \in {"unsupported output format", "unsupported image format"}
        /\ opened = {}
        /\ written = {}

ProgressSince(n) ==
    {events[k].pct : k \in {m \in (n + 1)..Len(events) : events[m].ev = "progress"}}

\* C8 as stated: for a path with an unsupported extension, whether or not a
\* file exists there, Convert returns an unsupported-input failure without
\* opening the file or invoking an engine, emits no progress event but 0%,
\* and writes nothing.
C8_Original ==
    (Returned /\ hist.cancelPc = "never" /\ detectFileType(cv.src) = "") =>
        /\ cv.err = "unsupported file type"
        /\ opened = {}
        /\ calls = {}
        /\ written = {}
        /\ ProgressSince(hist.evStart) \subseteq {0}

\* C8 amended: for a path with an unsupported extension Convert returns a
\* failure without opening the file or invoking an engine, emits no progress
\* event but 0%, and writes nothing; the failure is unsupported-input when a
\* file exists at the path, file-does-not-exist when none does, and the
\* cancellation when that was signalled before validation.
C8_UnsupportedInput ==
    (Returned /\ detectFileType(cv.src) = "") =>
        /\ cv.err = IF hist.cancelPc \in {"idle", "c_start", "c_validate_input"}
                    THEN "cancelled"
                    ELSE IF Exists(fs, cv.src) THEN "unsupported file type"
                    ELSE "file does not exist"
        /\ opened = {}
        /\ calls = {}
        /\ written = {}
        /\ ProgressSince(hist.evStart) \subseteq {0}

\* notes.txt exists and is refused as unsupported input.
C8_Witness ==
    /\ Returned
    /\ cv.src = P("home", "notes", "txt")
    /\ cv.err = "unsupported file type"
    /\ ProgressSince(hist.evStart) = {0}

\* C9 as stated: BatchConvertFiles on a single file yields the
\* ConversionResult and leaves the files that ConvertFile yields and leaves
\* for that file and target.
C9_Claim ==
    (/\ app.op = "batch"
     /\ app.pc = "done"
     /\ Len(app.files) = 1
     /\ hist.cancelPc = "never") =>
        /\ app.results = <<ConvertFileRun(app.files[1], app.target, InitFS, Engs).result>>
        /\ fs = ConvertFileRun(app.files[1], app.target, InitFS, Engs).fs

\* The location is below the application's temp directory.
InsideTempDir(loc) ==
    Len(loc) > 2 /\ loc[1] = <<"t">> /\ loc[2] = <<"f">>

\* C10 as stated: for every path that does not lead into the application's
\* temp directory, however it is spelled, DeleteTempFile returns an error
\* and deletes nothing.
C10_Claim ==
    (del.pc = "done" /\ ~InsideTempDir(Locate(del.path))) =>
        /\ del.err # ""
        /\ del.disk = DiskFiles

\* C11: when Close has returned, every task that had been submitted when
\* Close was called has run to completion, the ones still in the channel at
\* that moment included.
C11_CloseDrains ==
    wp.pc = "closed" =>
        /\ wp.atClose \subseteq wp.done
        /\ wp.queue = <<>>
        /\ \A w \in 1..Workers : wp.running[w] = 0

\* Close was called with tasks waiting in the channel, and has returned.
C11_Witness ==
    /\ wp.pc = "closed"
    /\ wp.queuedAtClose >= 2
    /\ wp.atClose = wp.done

\* C12 as stated: a submission to a closed pool is refused without crashing
\* the caller.
C12_Claim ==
    (wp.pc # "none" /\ wp.late # {}) => wp.panic = ""

\* What the notifier has received from the Convert call in progress.
ConvertEvents == SubSeq(events, hist.evStart + 1, Len(events))

SuccessEvents ==
    <<Ev("progress", 0), Ev("progress", 50), Ev("progress", 100),
      Ev("complete", -1)>>

\* C13: at every moment of a Convert call the notifier has received a prefix
\* of 0%, 50%, 100%, Complete; a call that returned success has emitted all
\* four, a call that returned a failure has emitted a prefix of 0%, 50%
\* followed by exactly one Error, and never 100% or Complete.
C13_EventOrder ==
    (app.pc = "converting" \/ batch.pc = "b_item") =>
        IF cv.pc = "ret" /\ cv.err = ""
        THEN ConvertEvents = SuccessEvents
        ELSE IF cv.pc = "ret"
        THEN \E k \in 0..2 :
               ConvertEvents = Append(SubSeq(SuccessEvents, 1, k), Ev("error", -1))
        ELSE \E k \in 0..2 : ConvertEvents = SubSeq(SuccessEvents, 1, k)

\* A conversion that failed in the engine, after 0% and 50%.
C13_Witness ==
    /\ Returned
    /\ cv.err # ""
    /\ ConvertEvents = <<Ev("progress", 0), Ev("progress", 50), Ev("error", -1)>>

\* C14 as stated: after startup, browser found or not, the engine lookup
\* yields an engine for each of XLSX, DOCX, JPEG, PNG and WebP, and no
\* conversion is refused for lack of an engine.
C14_Claim ==
    appEngines \in {OnStartup(b) : b \in BOOLEAN} =>
        /\ \A ft \in {"XLSX", "DOCX", "JPEG", "PNG", "WEBP"} :
             selectEngine(Engs, ft) # "nil"
        /\ Returned => cv.err # "no conversion engine available"

\* C15 as stated: whenever at least one engine is registered,
\* GetSupportedFormats returns exactly pdf, html, png, jpeg and webp.
C15_Claim ==
    (app.op = "formats" /\ app.pc = "done" /\ DOMAIN Engs # {}) =>
        Range(app.formats) = {"pdf", "html", "png", "jpeg", "webp"}

\* C16 as stated: a PDF render is only ever issued on a browser that is
\* Ready, never on one that has been closed; and a failed launch leaves the
\* handle absent, so that the next call launches again.
C16_Claim ==
    br.pc # "none" =>
        /\ \A k \in 1..Len(br.log) :
             br.log[k].ev = "render" => br.log[k].on = "ready"
        /\ \A k \in 1..Len(br.log) :
             (br.log[k].ev = "launch failed" /\ k < Len(br.log)) =>
                 br.log[k + 1].ev \in {"launched", "launch failed"}

\* The cells of a parsed sheet that are marked as merge anchors.
AnchorCells(sheet) ==
    {<<r, c>> \in (1..GridRows) \X (1..GridCols) :
        r <= Len(sheet.Rows) /\ c <= Len(sheet.Rows[r]) /\ sheet.Rows[r][c].IsMerged}

\* C17 as stated: for every parsed sheet, whatever the lengths of its rows,
\* the number of cells marked as merge anchor equals the number of merged
\* ranges.
C17_Claim ==
    xl.pc \in {"parsed", "rendered"} =>
        Cardinality(AnchorCells(xl.sheet)) = Cardinality(xl.merges)

RECURSIVE SpanSum(_)
SpanSum(tds) == IF tds = <<>> THEN 0 ELSE Head(tds).colspan + SpanSum(Tail(tds))

\* C18 as stated: in every rendered row no <td> is emitted at a column that
\* a merged range covers without being its anchor, padding included, and
\* the column spans of the row's cells add up to at most maxColumns.
C18_Claim ==
    xl.pc = "rendered" =>
        \A r \in 1..Len(xl.html) :
            /\ \A k \in 1..Len(xl.html[r]) :
                 <<r, xl.html[r][k].col>> \notin buildMergeMap(xl.merges).coveredCells
            /\ SpanSum(xl.html[r]) <= xl.sheet.MaxColumns

\* The positions of the document's character data that lie inside a w:tc,
\* each with the number of its cell (cells counted in document order).
CellTexts(tokens) ==
    {<<k, n>> \in (DOMAIN tokens) \X (DOMAIN tokens) :
        /\ tokens[k].kind = "chars"
        /\ n = Cardinality({j \in 1..k : tokens[j] = StartElement("tc")})
        /\ n > Cardinality({j \in 1..k : tokens[j] = EndElement("tc")})}

\* The cells of the document's Table elements, in document order.
TableCells(elements) ==
    Flatten([e \in DOMAIN elements |->
        IF elements[e].Type = "ElementTypeTable"
        THEN Flatten([r \in DOMAIN elements[e].Table.Rows |->
                         elements[e].Table.Rows[r].Cells])
        ELSE <<>>])

HasText(runs, k) == \E i \in DOMAIN runs : \E j \in DOMAIN runs[i].Text : runs[i].Text[j] = k

\* C19 as stated: once the document is parsed, the text of every run inside
\* a table cell, directly or within a paragraph of the cell, is held by the
\* runs of that cell of the Table element, and by no top-level Paragraph.
C19_Claim ==
    dx.pc = "parsed" =>
        \A kn \in CellTexts(dx.xmlData) :
            /\ kn[2] <= Len(TableCells(dx.Elements))
            /\ HasText(TableCells(dx.Elements)[kn[2]].Runs, kn[1])
            /\ \A e \in DOMAIN dx.Elements :
                 dx.Elements[e].Type = "ElementTypeParagraph" =>
                     ~HasText(dx.Elements[e].Paragraph.Runs, kn[1])

\* C20 as stated: when ImageEngine.Convert has failed in the encoder, after
\* it created the output file, no file is left at the output path by the
\* time Convert has returned.
C20_Claim ==
    (Returned /\ cv.eng = "image" /\ cv.err = "encode" /\ cv.out \in written) =>
        ~Exists(fs, cv.out)

\* C21: on a pool that has not been closed, Submit of the next task can
\* complete exactly when fewer than 2 x workers tasks wait in the channel;
\* with 2 x workers tasks waiting that no worker has taken, it blocks.
C21_SubmitBlocksWhenFull ==
    (wp.pc = "open" /\ Cardinality(wp.submitted) < MaxTasks) =>
        ((ENABLED PoolSubmit) <=> Len(wp.queue) < 2 * Workers)

\* The channel holds 2 x workers tasks and a further task is to be
\* submitted.
C21_Witness ==
    /\ wp.pc = "open"
    /\ Len(wp.queue) = 2 * Workers
    /\ Cardinality(wp.submitted) < MaxTasks
    /\ ~ENABLED PoolSubmit

\* C22 as stated: in a batch of N files, on the sequential and on the
\* parallel path, the batch-level progress notifications carry
\* non-decreasing completed counts, there is one per completed file, and
\* the last one of a batch that ran to its end reports N.
C22_Claim ==
    /\ \A i, j \in DOMAIN hist.notified :
         i <= j => hist.notified[i].completed <= hist.notified[j].completed
    /\ (app.op = "batch" /\ app.pc = "done") =>
         /\ Len(hist.notified) = Len(app.results)
         /\ (Len(app.results) = Len(app.files) /\ Len(app.files) > 0) =>
              hist.notified[Len(hist.notified)].completed = Len(app.files)

\* All inputs of the batch resolve to one and the same registered engine.
Homogeneous(files) ==
    /\ selectEngine(Engs, detectFileType(files[1])) # "nil"
    /\ \A i \in DOMAIN files :
         selectEngine(Engs, detectFileType(files[i])) =
             selectEngine(Engs, detectFileType(files[1]))

C24_Claim ==
    life.pc = "shut" =>
        \A e \in EngineNames :
            life.pools[e].made =>
                life.pools[e].closed /\ life.pools[e].exited = Workers

\* C25 as stated: whatever the interleaving of the concurrent calls that
\* need PDF rendering first, at most one headless browser is launched and
\* every render goes through that one browser.
C25_Claim ==
    launch.pc = "run" =>
        /\ launch.launched <= 1
        /\ Cardinality(launch.rendered) <= 1

\* The local names parseDocumentXML has a case for.
Recognised ==
    {"p", "pPr", "pStyle", "jc", "tbl", "tr", "tc", "r", "rPr", "b", "i", "u",
     "strike", "sz", "color", "t", "br"}

\* The start or end tag of a recognised WordprocessingML element, or
\* character data.
OwnToken(token) ==
    token.kind = "chars" \/ (token.space = "w" /\ token.name \in Recognised)

\* The parser's variables after the tokens, from the state d.
RECURSIVE ParseFrom(_, _)
ParseFrom(d, tokens) ==
    IF tokens = <<>> THEN d ELSE ParseFrom(OnToken(d, Head(tokens)), Tail(tokens))

\* The flags, accumulators and elements of a parser state.
ParserVariables(d) == [d EXCEPT !.pc = "", !.pos = 0, !.xmlData = <<>>]

\* C26 as stated: the tags of elements that are not recognised
\* WordprocessingML elements, elements of another namespace with a
\* recognised local name included, change no flag and no accumulator: at
\* every point the parser's variables, and in the end the document tree,
\* are those obtained from the document with these tags removed.
C26_Claim ==
    dx.pc \in {"decoding", "parsed"} =>
        ParserVariables(dx) =
            ParserVariables(
                ParseFrom(NewDocxParse(<<>>),
                          SelectSeq(SubSeq(dx.xmlData, 1, dx.pos - 1), OwnToken)))

\* C27 as stated: when ConvertFile has returned a failure of validation,
\* parsing or encoding (the context was never cancelled), every file that
\* existed before the call, the source and a file at the output path
\* included, still exists with its content, also when the output path is
\* the source path.
C27_Claim ==
    (/\ app.op = "convert"
     /\ app.pc = "done"
     /\ ~app.results[1].Success
     /\ hist.cancelPc = "never") =>
        \A p \in DOMAIN InitFS : Exists(fs, p) /\ fs[p] = InitFS[p]

\* The places a submitted task of the batch is in: waiting in the channel,
\* held by a worker, executed.
TaskPlaces(k) ==
    Cardinality({i \in DOMAIN pool.queue : pool.queue[i] = k})
        + Cardinality({w \in 1..Workers : pool.running[w] = k})
        + Cardinality({i \in DOMAIN hist.outcome :
                          hist.outcome[i].Index = pool.tasks[k].Index})

\* C28: during an engine's BatchConvert every task that Submit accepted is
\* in exactly one place (in the channel, with one worker, or executed
\* once), so none is dropped or run twice; a slot of the result array is
\* written only by the run of the task carrying its index, and when
\* BatchConvert has returned every task has run exactly once.
C28_ExactlyOnce ==
    app.pc \in {"par", "done"} /\ pool.eng # "nil" =>
        /\ \A k \in 1..Len(pool.tasks) :
             TaskPlaces(k) = IF k < pool.next THEN 1 ELSE 0
        /\ \A i \in 1..Len(pool.results) :
             IF \E o \in Range(hist.outcome) : o.Index = i - 1
             THEN \A o \in Range(hist.outcome) :
                     o.Index = i - 1 => pool.results[i] = o
             ELSE pool.results[i] = ZeroBatchResult
        /\ ParallelDone => Len(hist.outcome) = Len(pool.tasks)

\* A batch of two tasks has returned, each task run once, in the order of
\* submission.
C28_Witness ==
    /\ ParallelDone
    /\ Len(pool.tasks) = 2
    /\ Len(hist.outcome) = 2
    /\ hist.outcome[1].Index = 0
    /\ hist.outcome[2].Error = ""

\* C29: every BatchConvert call on the pool eventually returns, whatever
\* its batch size (larger than the workers plus the channel included) and
\* with another call running on the same pool, given that every Convert
\* terminates and the pool is not closed.
C29_BatchReturns ==
    \A c \in BatchCalls : <>(bc.pc = "run" => bc.call[c].pc = "ret")

\* A call with more tasks than workers and channel slots has returned,
\* every task run, and so has a second call on the same pool.
C29_Witness ==
    /\ bc.pc = "run"
    /\ bc.call[1].pc = "ret"
    /\ bc.call[1].n > Workers + QueueCap
    /\ bc.call[1].ran = bc.call[1].n
    /\ bc.call[2].pc = "ret"
    /\ bc.call[2].ran = MaxSecondBatch

\* C30 as stated: the delayed cleanup scheduled after a conversion never
\* deletes the output that a later successful conversion wrote to the same
\* path: a cleanup removes only the file of the conversion that scheduled
\* it.
C30_Claim ==
    tmp.pc # "none" => \A d \in tmp.removed : d.wrote <= d.by

====
